---- MODULE Spec2Model ----
(***************************************************************************)
(* Model of the exoplanet-explorer data pipeline: src/js/nasa-data.js      *)
(* (cache store, remote client, field mapper, validator, orchestrator,     *)
(* background refresh) and the catalog store of src/js/database.js.        *)
(*                                                                         *)
(* Numbers.  JavaScript numbers are modelled by integers; the three        *)
(* non-integer values the pipeline can produce are sentinels far outside   *)
(* the data range: Null (null or undefined: the code only tests them with  *)
(* == null / != null), NaN and Inf (Infinity).                             *)
(* Units.  Times are milliseconds.  sy_dist is whole parsecs and distance  *)
(* is in units of 1e-5 light-year (so the factor 3.26156 is 326156);       *)
(* pl_eqt and st_teff are in tenths of a kelvin so that Math.round has     *)
(* work to do; ra, dec and sy_vmag are whole degrees and magnitudes.       *)
(* The science of src/js/science.js works in scaled integers (see there).  *)
(* Strings that the model never looks into (disc_refname) are modelled by  *)
(* their length in characters: they only matter for the size budget.       *)
(* A string column that is missing, null or empty is the empty string: the *)
(* code only tests such columns for truthiness.                            *)
(***************************************************************************)
EXTENDS Integers, Sequences, FiniteSets, TLC

\* ------------------------------------------------------------------------
\* JavaScript values

Null == -1000001
NaN == -1000002
Inf == 2000000000

\* a < b, a <= b, a > b on JavaScript numbers (never called with Null here):
\* every comparison with NaN is false, Infinity is above every number
JsLt(a, b) == IF a = NaN \/ b = NaN THEN FALSE
              ELSE IF a = Inf THEN FALSE
              ELSE IF b = Inf THEN TRUE
              ELSE a < b
JsLte(a, b) == IF a = NaN \/ b = NaN THEN FALSE
               ELSE IF b = Inf THEN TRUE
               ELSE IF a = Inf THEN FALSE
               ELSE a <= b
JsGt(a, b) == JsLt(b, a)

\* JSON.parse(JSON.stringify(v)) on a number: NaN and Infinity become null
JsonNumber(v) == IF v \in {NaN, Inf} THEN Null ELSE v

\* ------------------------------------------------------------------------
\* Constants of nasa-data.js

CACHE_VERSION == 2
CACHE_MAX_AGE_MS == 24 * 60 * 60 * 1000
CACHE_STALE_AGE_MS == 7 * 24 * 60 * 60 * 1000
FETCH_TIMEOUT_MS == 30000
REFRESH_DELAY_MS == 5000
PARSEC_TO_LY_E5 == 326156
SIZE_LIMIT == 4718592
HOUR_MS == 3600000

\* ------------------------------------------------------------------------
\* Field Mapper  (mapNASARecord)

\* Math.round on a value given in tenths: floor(x + 0.5)
RoundTenths(t) == (t + 5) \div 10

\* Math.pow(10, x) for the log-luminosities of the model (0..9 and overflow)
RECURSIVE IntPow(_, _)
IntPow(b, e) == IF e = 0 THEN 1 ELSE b * IntPow(b, e - 1)

Pow10(x) == IF x > 308 THEN Inf ELSE IntPow(10, x)

\* pl_name.replace(/\s[b-i]$/i, ''): a trailing blank and planet letter go
PlanetLetters == {"b", "c", "d", "e", "f", "g", "h", "i",
                  "B", "C", "D", "E", "F", "G", "H", "I"}
StripPlanetLetter(s) ==
  IF Len(s) >= 2 /\ SubSeq(s, Len(s) - 1, Len(s) - 1) = " "
                /\ SubSeq(s, Len(s), Len(s)) \in PlanetLetters
  THEN SubSeq(s, 1, Len(s) - 2) ELSE s

\* the fields of the mapped record that some operation of the model reads
\* (eccentricity, inclination, starMass, discoveryFacility, kMag, source and
\* nasaRaw are copied by the code and read by none of them)
mapNASARecord(raw) ==
  [ name            |-> IF raw.pl_name = "" THEN "Unknown" ELSE raw.pl_name,
    system          |-> IF raw.hostname /= "" THEN raw.hostname
                        ELSE IF StripPlanetLetter(raw.pl_name) /= ""
                        THEN StripPlanetLetter(raw.pl_name) ELSE "Unknown",
    starType        |-> raw.st_spectype,
    starTemp        |-> IF raw.st_teff /= Null THEN RoundTenths(raw.st_teff) ELSE Null,
    discovered      |-> raw.disc_year,
    discoveryMethod |-> raw.discoverymethod,
    ra              |-> raw.ra,
    dec             |-> raw.dec,
    vMag            |-> raw.sy_vmag,
    distance        |-> IF raw.sy_dist /= Null THEN raw.sy_dist * PARSEC_TO_LY_E5 ELSE Null,
    radius          |-> raw.pl_rade,
    mass            |-> raw.pl_bmasse,
    period          |-> raw.pl_orbper,
    semiMajorAxis   |-> raw.pl_orbsmax,
    eqTemp          |-> IF raw.pl_eqt /= Null THEN RoundTenths(raw.pl_eqt) ELSE Null,
    eqTempEstimated |-> FALSE,
    starLum         |-> IF raw.st_lum /= Null THEN Pow10(raw.st_lum) ELSE Null,
    starLumLog      |-> raw.st_lum,
    discoveryRef    |-> IF raw.disc_refname = 0 THEN Null ELSE raw.disc_refname,
    controversial   |-> raw.pl_controv_flag = 1 ]

\* rawData.map(mapNASARecord)
MapAll(raws) == [i \in 1..Len(raws) |-> mapNASARecord(raws[i])]

\* ------------------------------------------------------------------------
\* Validator / Cleaner  (validateAndClean)

\* Math.pow(r, 2.5) on the radii of the model: negative base gives NaN,
\* perfect squares k*k give k^5
Pow25(r) == IF r < 0 THEN NaN
            ELSE LET k == CHOOSE k \in 0..r : k * k = r IN IntPow(k, 5)

\* Math.pow(L, 0.25) for L = 10^(4j), and Math.sqrt on perfect squares
Root4(l) == IF l = Inf THEN Inf ELSE CHOOSE k \in 1..l : k * k * k * k = l
Sqrt(a) == CHOOSE k \in 1..a : k * k = a

\* Math.round(278 * Math.pow(starLum, 0.25) / Math.sqrt(semiMajorAxis))
EstimateEqTemp(starLum, sma) ==
  IF Root4(starLum) = Inf THEN Inf
  ELSE (2 * 278 * Root4(starLum) + Sqrt(sma)) \div (2 * Sqrt(sma))

\* variant of the default-filling block that forgets the orbital period
FillDefaultsNoPeriod(p) ==
  LET distance == IF p.distance = Null THEN 0 ELSE p.distance
      radius == IF p.radius = Null THEN 1 ELSE p.radius
      mass == IF p.mass = Null
              THEN (IF radius > 4 THEN radius * 5 ELSE Pow25(radius))
              ELSE p.mass
      eqTemp == IF p.eqTemp = Null
                THEN (IF p.starLum /= Null /\ p.semiMajorAxis /= Null /\ p.semiMajorAxis > 0
                      THEN EstimateEqTemp(p.starLum, p.semiMajorAxis)
                      ELSE 300)
                ELSE p.eqTemp
  IN [p EXCEPT !.distance = distance,
               !.radius = radius,
               !.mass = mass,
               !.eqTemp = eqTemp,
               !.eqTempEstimated = IF p.eqTemp = Null THEN TRUE ELSE p.eqTempEstimated,
               !.semiMajorAxis = IF p.semiMajorAxis = Null THEN 0 ELSE p.semiMajorAxis]

\* the default-filling block applied to one record, in the code's order
FillDefaults(p) ==
  LET distance == IF p.distance = Null THEN 0 ELSE p.distance
      radius == IF p.radius = Null THEN 1 ELSE p.radius
      mass == IF p.mass = Null
              THEN (IF radius > 4 THEN radius * 5 ELSE Pow25(radius))
              ELSE p.mass
      eqTemp == IF p.eqTemp = Null
                THEN (IF p.starLum /= Null /\ p.semiMajorAxis /= Null /\ p.semiMajorAxis > 0
                      THEN EstimateEqTemp(p.starLum, p.semiMajorAxis)
                      ELSE 300)
                ELSE p.eqTemp
  IN [p EXCEPT !.distance = distance,
               !.radius = radius,
               !.mass = mass,
               !.eqTemp = eqTemp,
               !.eqTempEstimated = IF p.eqTemp = Null THEN TRUE ELSE p.eqTempEstimated,
               !.period = IF p.period = Null THEN 0 ELSE p.period,
               !.semiMajorAxis = IF p.semiMajorAxis = Null THEN 0 ELSE p.semiMajorAxis]

\* the entries pushed on report.badValues for one record
BadValuesOf(p) ==
  (IF p.radius /= Null /\ (JsLte(p.radius, 0) \/ JsGt(p.radius, 100))
   THEN <<[name |-> p.name, field |-> "radius", value |-> p.radius]>> ELSE <<>>)
  \o
  (IF p.mass /= Null /\ (JsLte(p.mass, 0) \/ JsGt(p.mass, 100000))
   THEN <<[name |-> p.name, field |-> "mass", value |-> p.mass]>> ELSE <<>>)
  \o
  (IF p.distance /= Null /\ JsLte(p.distance, 0)
   THEN <<[name |-> p.name, field |-> "distance", value |-> p.distance]>> ELSE <<>>)
  \o
  (IF p.eqTemp /= Null /\ (JsLt(p.eqTemp, 2) \/ JsGt(p.eqTemp, 10000))
   THEN <<[name |-> p.name, field |-> "eqTemp", value |-> p.eqTemp]>> ELSE <<>>)

NamesOf(planets) == {planets[i].name : i \in 1..Len(planets)}
CountName(planets, n) == Cardinality({i \in 1..Len(planets) : planets[i].name = n})

\* nameCounts is a plain object: for a key that Object.prototype already
\* answers, nameCounts[key] || 0 is that inherited function or object, the
\* "+ 1" builds a string, and the filter count > 1 never holds for it
\* (__proto__ is not even stored)
ObjectPrototypeKeys ==
  {"constructor", "toString", "toLocaleString", "valueOf", "hasOwnProperty",
   "isPrototypeOf", "propertyIsEnumerable", "__proto__", "__defineGetter__",
   "__defineSetter__", "__lookupGetter__", "__lookupSetter__"}

\* report.duplicates: every name counted more than once, with its count
\* (a set here: Object.entries order is not modelled)
DuplicatesOf(planets) ==
  {[name |-> n, count |-> CountName(planets, n)] :
      n \in {m \in NamesOf(planets) :
                m \notin ObjectPrototypeKeys /\ CountName(planets, m) > 1}}

\* a loop that skips no record
IsFirstOccurrenceKeepsAll(planets, i) == i \in 1..Len(planets)

\* the positions the loop keeps: first occurrence of each name
IsFirstOccurrence(planets, i) == \A j \in 1..(i - 1) : planets[j].name /= planets[i].name

RECURSIVE KeptFrom(_, _)
KeptFrom(planets, i) ==
  IF i > Len(planets) THEN <<>>
  ELSE (IF IsFirstOccurrence(planets, i) THEN <<planets[i]>> ELSE <<>>)
       \o KeptFrom(planets, i + 1)

RECURSIVE FlatBad(_, _)
FlatBad(kept, i) ==
  IF i > Len(kept) THEN <<>> ELSE BadValuesOf(kept[i]) \o FlatBad(kept, i + 1)

\* the null-field tally of one field, and the controversial count
CountNull(kept, field) == Cardinality({i \in 1..Len(kept) : kept[i][field] = Null})
CountControversial(kept) == Cardinality({i \in 1..Len(kept) : kept[i].controversial})

validateAndClean(planets) ==
  LET outcome(kept) ==
    LET cleaned == [i \in 1..Len(kept) |-> FillDefaults(kept[i])]
        nobody(field) == CountNull(kept, field)
    IN
     [ planets |-> cleaned,
       report |->
         [ totalInput    |-> Len(planets),
           nullFields    |-> [ distance      |-> nobody("distance"),
                               radius        |-> nobody("radius"),
                               mass          |-> nobody("mass"),
                               eqTemp        |-> nobody("eqTemp"),
                               period        |-> nobody("period"),
                               semiMajorAxis |-> nobody("semiMajorAxis") ],
           badValues     |-> FlatBad(kept, 1),
           duplicates    |-> DuplicatesOf(planets),
           controversial |-> CountControversial(kept),
           cleaned       |-> Len(planets) - Len(kept),
           passed        |-> Len(kept),
           totalOutput   |-> Len(cleaned) ] ]
  IN CHOOSE out \in {outcome(kept) : kept \in {KeptFrom(planets, 1)}} : TRUE

\* the list handed to validateAndClean as the call leaves it: the loop writes
\* the defaults into the objects it keeps, so the records of the input at the
\* kept positions are the cleaned records; a skipped duplicate is untouched
MutatedInput(planets) ==
  [i \in 1..Len(planets) |->
     IF IsFirstOccurrence(planets, i) THEN FillDefaults(planets[i]) ELSE planets[i]]

\* the same objects seen through an array that holds them at the kept
\* positions of list: its records after the objects in kept have changed
SharedWith(list, kept) ==
  [i \in 1..Len(list) |->
     IF IsFirstOccurrence(list, i)
     THEN kept[Cardinality({j \in 1..i : IsFirstOccurrence(list, j)})]
     ELSE list[i]]

\* computeValidationReport: spreads the validator's report and adds a stats
\* object (medians, method set, year range) that no operation of the pipeline
\* reads back; the model carries the report fields only
computeValidationReport(planets, report) == report

\* ------------------------------------------------------------------------
\* Natural numbers beyond 32 bits: the limbs of a number in base 10000,
\* least significant first, without leading zeros (zero is <<>>).  They
\* carry the 53-bit mantissas of JavaScript's doubles and exact products.

BigBase == 10000

RECURSIVE BigOf(_)
BigOf(n) == IF n = 0 THEN <<>> ELSE <<n % BigBase>> \o BigOf(n \div BigBase)

Limb(x, i) == IF i <= Len(x) THEN x[i] ELSE 0

RECURSIVE BigStrip(_)
BigStrip(x) ==
  IF x = <<>> \/ x[Len(x)] /= 0 THEN x ELSE BigStrip(SubSeq(x, 1, Len(x) - 1))

\* x * n for 0 <= n <= 200000
RECURSIVE BigMulCarry(_, _, _, _)
BigMulCarry(x, n, i, carry) ==
  IF i > Len(x) THEN BigOf(carry)
  ELSE CHOOSE out \in {<<v % BigBase>> \o BigMulCarry(x, n, i + 1, v \div BigBase) :
                          v \in {x[i] * n + carry}} : TRUE
BigMulSmall(x, n) == IF n = 0 THEN <<>> ELSE BigMulCarry(x, n, 1, 0)

\* x * n^e
RECURSIVE BigMulPow(_, _, _)
BigMulPow(x, n, e) ==
  IF e = 0 THEN x
  ELSE CHOOSE out \in {BigMulPow(y, n, e - 1) : y \in {BigMulSmall(x, n)}} : TRUE

RECURSIVE BigAddCarry(_, _, _, _)
BigAddCarry(x, y, i, carry) ==
  IF i > Len(x) /\ i > Len(y) THEN BigOf(carry)
  ELSE CHOOSE out \in {<<v % BigBase>> \o BigAddCarry(x, y, i + 1, v \div BigBase) :
                          v \in {Limb(x, i) + Limb(y, i) + carry}} : TRUE
BigAdd(x, y) == BigAddCarry(x, y, 1, 0)

\* x < y
RECURSIVE BigLessFrom(_, _, _)
BigLessFrom(x, y, i) ==
  IF i = 0 THEN FALSE
  ELSE IF x[i] /= y[i] THEN x[i] < y[i]
  ELSE BigLessFrom(x, y, i - 1)
BigLess(x, y) ==
  IF Len(x) /= Len(y) THEN Len(x) < Len(y) ELSE BigLessFrom(x, y, Len(x))

\* x - y for x >= y, and |x - y|
RECURSIVE BigSubBorrow(_, _, _, _)
BigSubBorrow(x, y, i, borrow) ==
  IF i > Len(x) THEN <<>>
  ELSE CHOOSE out \in {<<(v + BigBase) % BigBase>>
                          \o BigSubBorrow(x, y, i + 1, IF v < 0 THEN 1 ELSE 0) :
                          v \in {x[i] - Limb(y, i) - borrow}} : TRUE
BigSub(x, y) == BigStrip(BigSubBorrow(x, y, 1, 0))
BigDist(x, y) == IF BigLess(x, y) THEN BigSub(y, x) ELSE BigSub(x, y)

\* floor(x / n) and x mod n for 0 < n <= 200000, from the top limb down
RECURSIVE BigDivFrom(_, _, _, _)
BigDivFrom(x, n, i, rem) ==
  IF i = 0 THEN [q |-> <<>>, r |-> rem]
  ELSE CHOOSE out \in
         UNION {{[q |-> rest.q \o <<v \div n>>, r |-> rest.r] :
                   rest \in {BigDivFrom(x, n, i - 1, v % n)}} :
                v \in {rem * BigBase + x[i]}} : TRUE
BigDivSmall(x, n) ==
  CHOOSE out \in {[q |-> BigStrip(d.q), r |-> d.r] :
                    d \in {BigDivFrom(x, n, Len(x), 0)}} : TRUE

\* x * 2^e and floor(x / 2^e), thirteen bits at a time
BigShl(x, e) == BigMulPow(BigMulPow(x, 8192, e \div 13), 2, e % 13)
RECURSIVE BigShr(_, _)
BigShr(x, e) ==
  IF e = 0 THEN x
  ELSE CHOOSE out \in {BigShr(y, IF e >= 13 THEN e - 13 ELSE e - 1) :
                         y \in {BigDivSmall(x, IF e >= 13 THEN 8192 ELSE 2).q}} : TRUE

\* the value of a number below 2^31
RECURSIVE BigValueFrom(_, _)
BigValueFrom(x, i) == IF i > Len(x) THEN 0 ELSE x[i] + BigBase * BigValueFrom(x, i + 1)
BigValue(x) == BigValueFrom(x, 1)

\* decimal digits and bits of n >= 0 (0 has one digit and no bit)
RECURSIVE DecimalDigits(_)
DecimalDigits(n) == IF n < 10 THEN 1 ELSE 1 + DecimalDigits(n \div 10)
RECURSIVE BitLength(_)
BitLength(n) == IF n = 0 THEN 0 ELSE 1 + BitLength(n \div 2)
Abs(x) == IF x < 0 THEN -x ELSE x

\* ------------------------------------------------------------------------
\* Doubles.  A positive double is [m, k]: the value m / 2^k with
\* 2^52 <= m < 2^53.

TwoTo52 == BigShl(<<1>>, 52)
TwoTo53 == BigShl(<<1>>, 53)

\* x / 2^s rounded to the nearest integer, ties to even (0 <= s <= 17)
RoundShift(x, s) ==
  IF s = 0 THEN x
  ELSE CHOOSE out \in
         {IF d.r * 2 > 2 ^ s \/ (d.r * 2 = 2 ^ s /\ Limb(d.q, 1) % 2 = 1)
          THEN BigAdd(d.q, <<1>>) ELSE d.q : d \in {BigDivSmall(x, 2 ^ s)}} : TRUE

\* the double nearest to a / 2^k0 for a number a of 53 + s or 52 + s bits,
\* s = the number of bits to drop
RoundToDouble(a, k0, s) ==
  CHOOSE out \in {IF q = TwoTo53 THEN [m |-> TwoTo52, k |-> k0 - s - 1]
                                 ELSE [m |-> q, k |-> k0 - s] :
                    q \in {RoundShift(a, s)}} : TRUE

\* the number of bits of x
RECURSIVE BigBits(_)
BigBits(x) ==
  IF Len(x) <= 1 THEN BitLength(Limb(x, 1))
  ELSE CHOOSE out \in {13 + BigBits(y) : y \in {BigDivSmall(x, 8192).q}} : TRUE

\* the double nearest to a / 2^k for a > 0 of at most 70 bits; zero is
\* [m |-> <<>>, k |-> 0]
Zero == [m |-> <<>>, k |-> 0]
NearestDouble(a, k) ==
  IF a = <<>> THEN Zero
  ELSE CHOOSE out \in {IF b <= 53 THEN [m |-> BigShl(a, 53 - b), k |-> k + 53 - b]
                                  ELSE RoundToDouble(a, k, b - 53) :
                         b \in {BigBits(a)}} : TRUE

\* Math.floor of a double x >= 0, and the numerator of x - Math.floor(x)
\* over 2^x.k (the difference is a double: no rounding)
DoubleFloor(x) == IF x.k <= 0 THEN BigValue(BigShl(x.m, -x.k)) ELSE BigValue(BigShr(x.m, x.k))
DoubleFraction(x) ==
  IF x.k <= 0 THEN <<>> ELSE BigSub(x.m, BigShl(BigShr(x.m, x.k), x.k))

\* floor(log2(n / by)) for whole n, by > 0
RECURSIVE Log2Up(_, _, _)
Log2Up(n, by, e) == IF n < 2 * by * 2 ^ e THEN e ELSE Log2Up(n, by, e + 1)
RECURSIVE Log2Down(_, _, _)
Log2Down(n, by, e) == IF n * 2 ^ e >= by THEN -e ELSE Log2Down(n, by, e + 1)
FloorLog2(n, by) == IF n >= by THEN Log2Up(n, by, 0) ELSE Log2Down(n, by, 1)

\* the double n / by for whole 0 < n, 0 < by <= 200000
QuotientDouble(n, by) ==
  LET rounded(d, k) ==
        CHOOSE out \in {IF m = TwoTo53 THEN [m |-> TwoTo52, k |-> k - 1]
                                       ELSE [m |-> m, k |-> k] :
                          m \in {IF 2 * d.r > by \/ (2 * d.r = by /\ Limb(d.q, 1) % 2 = 1)
                                 THEN BigAdd(d.q, <<1>>) ELSE d.q}} : TRUE
      shifted(k) ==
        CHOOSE out \in {rounded(d, k) : d \in {BigDivSmall(BigShl(BigOf(n), k), by)}} : TRUE
  IN CHOOSE out \in {shifted(k) : k \in {52 - FloorLog2(n, by)}} : TRUE

\* x.toFixed(1) in tenths for a double x >= 0: the decimal value of x
\* rounded half up
ToFixed1(x) ==
  IF x = Zero THEN 0
  ELSE BigValue(BigShr(BigAdd(BigMulSmall(x.m, 20), BigShl(<<1>>, x.k)), x.k + 1))

\* x * y
RECURSIVE BigMulFrom(_, _, _)
BigMulFrom(x, y, i) ==
  IF i > Len(y) THEN <<>>
  ELSE CHOOSE out \in {BigAdd(part, rest) :
                         part \in {BigStrip([j \in 1..(i - 1) |-> 0] \o BigMulSmall(x, y[i]))},
                         rest \in {BigMulFrom(x, y, i + 1)}} : TRUE
BigMul(x, y) == IF x = <<>> THEN <<>> ELSE BigMulFrom(x, y, 1)

\* whether the decimal n / 10^j reads back as the double x: it lies within
\* half a unit in the last place of x (the bound included when the mantissa
\* is even; half as far below a power of two)
ReadsBackAs(n, j, x) ==
  \E a \in {BigShl(n, x.k + 1)}, b \in {BigMulPow(BigMulSmall(x.m, 2), 10, j)},
     unit \in {BigMulPow(<<1>>, 10, j)} :
    \E gap \in {IF x.m = TwoTo52 /\ BigLess(a, b)
                THEN BigMulSmall(BigDist(a, b), 2) ELSE BigDist(a, b)} :
       \/ BigLess(gap, unit)
       \/ gap = unit /\ Limb(x.m, 1) % 2 = 0

\* the number of significant digits (15, 16 or 17) of the shortest decimal
\* that reads back as x, for an x that no shorter decimal gives
RECURSIVE LongDigits(_, _, _)
LongDigits(x, intDigits, digits) ==
  IF digits = 17 THEN 17
  ELSE IF \E lo \in {BigShr(BigMulPow(x.m, 10, digits - intDigits), x.k)} :
            \/ ReadsBackAs(lo, digits - intDigits, x)
            \/ ReadsBackAs(BigAdd(lo, <<1>>), digits - intDigits, x)
       THEN digits
       ELSE LongDigits(x, intDigits, digits + 1)

\* ------------------------------------------------------------------------
\* String(sy_dist * 3.26156).length for whole parsecs: the literal's
\* mantissa times the parsecs, rounded to 53 bits; JSON.stringify writes the
\* shortest decimal that reads back as that double

\* 3.26156 as a double is 7344380200323257 / 2^51
PARSEC_TO_LY_MANTISSA == <<3257, 32, 3802, 7344>>

\* the double |d| * 3.26156
ParsecsToLy(d) ==
  LET rounded(a, t) ==
        RoundToDouble(a, 51, IF BigLess(a, BigShl(<<1>>, 52 + t)) THEN t - 1 ELSE t)
  IN CHOOSE out \in {rounded(a, BitLength(Abs(d))) :
                       a \in {BigMulSmall(PARSEC_TO_LY_MANTISSA, Abs(d))}} : TRUE

\* digits after the point of n / 10^places, trailing zeros dropped
RECURSIVE FractionDigits(_, _)
FractionDigits(n, places) ==
  IF places = 0 \/ n % 10 /= 0 THEN places ELSE FractionDigits(n \div 10, places - 1)

DistanceChars(d) ==
  IF d = 0 THEN 1
  ELSE LET sign == IF d < 0 THEN 1 ELSE 0
           exact == Abs(d) * 326156
           short == DecimalDigits(exact \div 100000)
                    + (IF exact % 100000 = 0 THEN 0
                       ELSE 1 + FractionDigits(exact % 100000, 5))
           long(x, intDigits) == intDigits + 1 + (LongDigits(x, intDigits, 15) - intDigits)
           chars(x) ==
             IF ReadsBackAs(BigOf(exact), 5, x) THEN short
             ELSE CHOOSE out \in {long(x, DecimalDigits(ip)) :
                                    ip \in {BigValue(BigShr(x.m, x.k))}} : TRUE
       IN sign + (CHOOSE out \in {chars(x) : x \in {ParsecsToLy(d)}} : TRUE)

\* the lengths for the distances near the Sun, computed once
DistanceCharsNear == [d \in -64..256 |-> DistanceChars(d)]

\* ------------------------------------------------------------------------
\* JSON.stringify(record).length

\* a whole number, null, or NaN / Infinity (both written as null)
NumberChars(v) ==
  IF v \in {Null, NaN, Inf} THEN 4
  ELSE DecimalDigits(Abs(v)) + (IF v < 0 THEN 1 ELSE 0)

\* the distance of a record: null, or the product for its parsecs
LightYearChars(v) ==
  IF v \in {Null, NaN, Inf} THEN 4
  ELSE CHOOSE out \in {IF d \in DOMAIN DistanceCharsNear THEN DistanceCharsNear[d]
                                                         ELSE DistanceChars(d) :
                         d \in {v \div PARSEC_TO_LY_E5}} : TRUE

\* a string in quotes; a column that was missing or empty is null
StringChars(str) == Len(str) + 2
StringOrNullChars(str) == IF str = "" THEN 4 ELSE Len(str) + 2

\* the keys of the object mapNASARecord returns, in its order.  The query
\* selects every column, so a row without a value carries null there:
\* eccentricity, inclination, starMass, kMag and discoveryFacility, whose
\* columns the rows of the model leave out, are written as null
RecordKeys ==
  <<"name", "system", "distance", "radius", "mass", "period", "semiMajorAxis",
    "eqTemp", "eccentricity", "inclination", "starType", "starTemp", "starMass",
    "starLum", "starLumLog", "discovered", "discoveryMethod", "discoveryFacility",
    "discoveryRef", "ra", "dec", "vMag", "kMag", "controversial", "source", "nasaRaw">>
\* "key": for every key, the commas between the properties and the braces
RECURSIVE KeyChars(_, _)
KeyChars(keys, i) == IF i > Len(keys) THEN 0 ELSE Len(keys[i]) + 3 + KeyChars(keys, i + 1)
RecordFrameChars == KeyChars(RecordKeys, 1) + (Len(RecordKeys) - 1) + 2

RecordChars(p) ==
  RecordFrameChars
  + StringChars(p.name) + StringChars(p.system)
  + LightYearChars(p.distance)
  + NumberChars(p.radius) + NumberChars(p.mass) + NumberChars(p.period)
  + NumberChars(p.semiMajorAxis) + NumberChars(p.eqTemp)
  + NumberChars(Null) + NumberChars(Null)        \* eccentricity, inclination
  + StringOrNullChars(p.starType) + NumberChars(p.starTemp)
  + NumberChars(Null)                            \* starMass
  + NumberChars(p.starLum) + NumberChars(p.starLumLog)
  + NumberChars(p.discovered) + StringOrNullChars(p.discoveryMethod)
  + StringOrNullChars("")                        \* discoveryFacility
  + (IF p.discoveryRef = Null THEN 4 ELSE p.discoveryRef + 2)
  + NumberChars(p.ra) + NumberChars(p.dec) + NumberChars(p.vMag)
  + NumberChars(Null)                            \* kMag
  + (IF p.controversial THEN 4 ELSE 5)
  + StringChars("NASA Exoplanet Archive") + 4    \* source, nasaRaw: true
  \* eqTempEstimated exists only once the validator estimated the value
  + (IF p.eqTempEstimated THEN 1 + Len("eqTempEstimated") + 3 + 4 ELSE 0)

\* ------------------------------------------------------------------------
\* Cache Store

\* a storage entry is absent, unparseable text, or the JSON text of a value;
\* v is the value JSON.parse returns (meaningful only when k = "json")
NoReport ==
  [ totalInput |-> 0,
    nullFields |-> [distance |-> 0, radius |-> 0, mass |-> 0, eqTemp |-> 0,
                    period |-> 0, semiMajorAxis |-> 0],
    badValues |-> <<>>, duplicates |-> {}, controversial |-> 0, cleaned |-> 0,
    passed |-> 0, totalOutput |-> 0 ]
NoMeta == [version |-> 0, fetchedAt |-> 0, recordCount |-> 0, report |-> NoReport,
           truncated |-> FALSE, cachedCount |-> 0]
AbsentData == [k |-> "absent", v |-> <<>>]
CorruptData == [k |-> "corrupt", v |-> <<>>]
AbsentMeta == [k |-> "absent", v |-> NoMeta]
CorruptMeta == [k |-> "corrupt", v |-> NoMeta]

\* getCacheMeta / getCachedData: null when the entry is missing, when
\* JSON.parse throws, or when localStorage.getItem throws
getCacheMeta(store) ==
  IF store.readable /\ store.meta.k = "json"
  THEN [null |-> FALSE, v |-> store.meta.v] ELSE [null |-> TRUE, v |-> NoMeta]

\* variant of getCachedData whose catch hands back an empty list, not null
getCachedDataEmptyOnError(store) ==
  IF store.readable /\ store.data.k = "absent"
  THEN [null |-> TRUE, v |-> <<>>]
  ELSE [null |-> FALSE, v |-> IF store.readable THEN store.data.v ELSE <<>>]

getCachedData(store) ==
  IF store.readable /\ store.data.k = "json"
  THEN [null |-> FALSE, v |-> store.data.v] ELSE [null |-> TRUE, v |-> <<>>]

\* variant of isCacheFresh with an inclusive bound
isCacheFreshInclusive(store, t) ==
  LET meta == getCacheMeta(store)
  IN IF meta.null \/ meta.v.version /= CACHE_VERSION THEN FALSE
     ELSE (t - meta.v.fetchedAt) <= CACHE_MAX_AGE_MS

isCacheFresh(store, t) ==
  LET meta == getCacheMeta(store)
  IN IF meta.null \/ meta.v.version /= CACHE_VERSION THEN FALSE
     ELSE (t - meta.v.fetchedAt) < CACHE_MAX_AGE_MS

\* variant of isCacheUsable that does not look at the version
isCacheUsableAnyVersion(store, t) ==
  LET meta == getCacheMeta(store)
  IN IF meta.null THEN FALSE
     ELSE (t - meta.v.fetchedAt) < CACHE_STALE_AGE_MS

isCacheUsable(store, t) ==
  LET meta == getCacheMeta(store)
  IN IF meta.null \/ meta.v.version /= CACHE_VERSION THEN FALSE
     ELSE (t - meta.v.fetchedAt) < CACHE_STALE_AGE_MS

\* JSON.parse(JSON.stringify(record)): only NaN and Infinity change
JsonRecord(p) ==
  [p EXCEPT !.distance = JsonNumber(p.distance),
            !.radius = JsonNumber(p.radius),
            !.mass = JsonNumber(p.mass),
            !.period = JsonNumber(p.period),
            !.semiMajorAxis = JsonNumber(p.semiMajorAxis),
            !.eqTemp = JsonNumber(p.eqTemp),
            !.starLum = JsonNumber(p.starLum),
            !.starLumLog = JsonNumber(p.starLumLog)]
JsonList(data) == [i \in 1..Len(data) |-> JsonRecord(data[i])]

\* JSON.stringify(data).length: the records, the commas between them and
\* the brackets
RECURSIVE SumChars(_, _)
SumChars(data, i) == IF i > Len(data) THEN 0 ELSE RecordChars(data[i]) + SumChars(data, i + 1)
JsonLength(data) == 2 + SumChars(data, 1) + (IF Len(data) > 1 THEN Len(data) - 1 ELSE 0)

\* data.slice(0, Math.floor(data.length * 0.8))
Trimmed(data) == SubSeq(data, 1, (Len(data) * 8) \div 10)

\* setCachedData(data, meta) followed by its setCacheMeta(meta).
\* fail names the setItem call that throws: "none", "data" or "meta"
setCachedData(store, data, meta, fail) ==
  LET over == JsonLength(data) > SIZE_LIMIT
      kept == IF over THEN Trimmed(data) ELSE data
      meta2 == [meta EXCEPT !.truncated = over, !.cachedCount = Len(kept)]
  IN IF fail = "data" THEN store
     ELSE IF fail = "meta"
          THEN [store EXCEPT !.data = [k |-> "json", v |-> JsonList(kept)]]
          ELSE [store EXCEPT !.data = [k |-> "json", v |-> JsonList(kept)],
                             !.meta = [k |-> "json", v |-> meta2]]

\* formatAge(timestamp) at clock t: n = 0 stands for "less than 1 hour"
formatAge(timestamp, t) ==
  LET hours == (t - timestamp) \div HOUR_MS
      days == hours \div 24
  IN IF hours < 1 THEN [n |-> 0, unit |-> "less than 1 hour"]
     ELSE IF hours < 24 THEN [n |-> hours, unit |-> IF hours > 1 THEN "hours" ELSE "hour"]
     ELSE [n |-> days, unit |-> IF days > 1 THEN "days" ELSE "day"]
NoAge == [n |-> 0, unit |-> ""]

\* ------------------------------------------------------------------------
\* Progress callback and error messages

Phases == {"fetching", "parsing", "mapping", "validating", "complete",
           "cache-hit", "fallback-cache", "fallback-builtin", "ready"}

\* onProgress is absent, or present and throwing at the phases of throwsAt
NoCallback == [present |-> FALSE, throwsAt |-> {}]
CbThrows(cb, phase) == cb.present /\ phase \in cb.throwsAt

ErrTimeout == "NASA API request timed out (30s)"
ErrHttp == "NASA API returned 503: Service Unavailable"
ErrNetwork == "Failed to fetch"
ErrSyntax == "Unexpected token < in JSON at position 0"
ErrNotList == "rawData.map is not a function"
ErrNullItem == "Cannot read properties of null (reading 'sy_dist')"
ErrCallback == "onProgress failed"
FetchErrors == {ErrTimeout, ErrHttp, ErrNetwork, ErrSyntax, ErrNotList, ErrNullItem}

\* ------------------------------------------------------------------------
\* Pipeline Orchestrator  (loadNASAPlanets)

NullPlanets == [k |-> "null", v |-> <<>>]
NullReport == [k |-> "null", v |-> NoReport]
ListOf(recs) == [k |-> "list", v |-> recs]
ReportOf(r) == [k |-> "obj", v |-> r]

SrcFresh == [kind |-> "cache (fresh)", age |-> NoAge]
SrcLive == [kind |-> "NASA Exoplanet Archive (live)", age |-> NoAge]
SrcStale(age) == [kind |-> "cache (stale, <age> old)", age |-> age]
SrcBuiltin == [kind |-> "built-in fallback", age |-> NoAge]
NoSource == [kind |-> "", age |-> NoAge]

\* the promise of loadNASAPlanets: pending, rejected with an error, or
\* resolved to { planets, report, source, fetchedAt, fromCache, error }
PendingRet == [status |-> "pending", planets |-> NullPlanets, report |-> NullReport,
               source |-> NoSource, fetchedAt |-> Null, fromCache |-> FALSE, error |-> ""]
Rejected(err) == [PendingRet EXCEPT !.status = "rejected", !.error = err]
Resolved(planets, report, source, fetchedAt, fromCache, err) ==
  [status |-> "resolved", planets |-> planets, report |-> report, source |-> source,
   fetchedAt |-> fetchedAt, fromCache |-> fromCache, error |-> err]

\* variant of step 1 that wants more than one cached record
FreshHitLonger(store, t) ==
  /\ isCacheFresh(store, t)
  /\ ~getCachedData(store).null
  /\ Len(getCachedData(store).v) > 1

\* step 1: the cache is fresh and holds a non-empty list
FreshHit(store, t) ==
  /\ isCacheFresh(store, t)
  /\ ~getCachedData(store).null
  /\ Len(getCachedData(store).v) > 0

FreshResult(store, cb) ==
  IF CbThrows(cb, "cache-hit") THEN Rejected(ErrCallback)
  ELSE Resolved(ListOf(getCachedData(store).v), ReportOf(getCacheMeta(store).v.report),
                SrcFresh, getCacheMeta(store).v.fetchedAt, TRUE, "")

\* variants of the catch block with one slip each
\* - the error is thrown again when no cache can be used
LoadCatchRethrow(store, t, cb, err) ==
  IF isCacheUsable(store, t) /\ ~getCachedData(store).null /\ Len(getCachedData(store).v) > 0
  THEN IF CbThrows(cb, "fallback-cache") THEN Rejected(ErrCallback)
       ELSE Resolved(ListOf(getCachedData(store).v), ReportOf(getCacheMeta(store).v.report),
                     SrcStale(formatAge(getCacheMeta(store).v.fetchedAt, t)),
                     getCacheMeta(store).v.fetchedAt, TRUE, err)
  ELSE Rejected(err)

\* - the fallback asks isCacheFresh instead of isCacheUsable
LoadCatchFreshOnly(store, t, cb, err) ==
  IF isCacheFresh(store, t) /\ ~getCachedData(store).null /\ Len(getCachedData(store).v) > 0
  THEN IF CbThrows(cb, "fallback-cache") THEN Rejected(ErrCallback)
       ELSE Resolved(ListOf(getCachedData(store).v), ReportOf(getCacheMeta(store).v.report),
                     SrcStale(formatAge(getCacheMeta(store).v.fetchedAt, t)),
                     getCacheMeta(store).v.fetchedAt, TRUE, err)
  ELSE IF CbThrows(cb, "fallback-builtin") THEN Rejected(ErrCallback)
       ELSE Resolved(NullPlanets, NullReport, SrcBuiltin, Null, FALSE, err)

\* - the fallback takes any parseable cache, whatever its age and version
LoadCatchAnyAge(store, t, cb, err) ==
  IF ~getCacheMeta(store).null /\ ~getCachedData(store).null /\ Len(getCachedData(store).v) > 0
  THEN IF CbThrows(cb, "fallback-cache") THEN Rejected(ErrCallback)
       ELSE Resolved(ListOf(getCachedData(store).v), ReportOf(getCacheMeta(store).v.report),
                     SrcStale(formatAge(getCacheMeta(store).v.fetchedAt, t)),
                     getCacheMeta(store).v.fetchedAt, TRUE, err)
  ELSE IF CbThrows(cb, "fallback-builtin") THEN Rejected(ErrCallback)
       ELSE Resolved(NullPlanets, NullReport, SrcBuiltin, Null, FALSE, err)

\* the catch block: steps 3 (stale cache) and 4 (built-in) at clock t
LoadCatch(store, t, cb, err) ==
  IF isCacheUsable(store, t) /\ ~getCachedData(store).null /\ Len(getCachedData(store).v) > 0
  THEN IF CbThrows(cb, "fallback-cache") THEN Rejected(ErrCallback)
       ELSE Resolved(ListOf(getCachedData(store).v), ReportOf(getCacheMeta(store).v.report),
                     SrcStale(formatAge(getCacheMeta(store).v.fetchedAt, t)),
                     getCacheMeta(store).v.fetchedAt, TRUE, err)
  ELSE IF CbThrows(cb, "fallback-builtin") THEN Rejected(ErrCallback)
       ELSE Resolved(NullPlanets, NullReport, SrcBuiltin, Null, FALSE, err)

\* the body of the answer: a list of raw records, or something else
BodyError(body) ==
  CASE body.k = "syntax" -> ErrSyntax
    [] body.k = "nonlist" -> ErrNotList
    [] body.k = "nullitem" -> ErrNullItem
    [] OTHER -> ""

\* map -> validate -> report -> write: what both loadNASAPlanets and
\* backgroundRefresh do with a list answer at clock t
Ingest(store, t, raws) ==
  LET written(vc) ==
        LET fullReport == computeValidationReport(vc.planets, vc.report)
            meta == [version |-> CACHE_VERSION, fetchedAt |-> t,
                     recordCount |-> Len(vc.planets),
                     report |-> fullReport, truncated |-> FALSE, cachedCount |-> 0]
        IN [planets |-> vc.planets, report |-> fullReport, fetchedAt |-> t,
            store |-> setCachedData(store, vc.planets, meta, store.writeFail)]
  IN CHOOSE out \in {written(vc) : vc \in {validateAndClean(mapped) :
                                              mapped \in {MapAll(raws)}}} : TRUE

\* the promise of fetchNASAData: pending, rejected with an error, or
\* resolved with the parsed body of the answer
NotFetched == [status |-> "pending", error |-> ""]
FetchRejected(err) == [status |-> "rejected", error |-> err]
FetchResolved == [status |-> "resolved", error |-> ""]

\* fetchNASAData from the point where response.json() has settled: a body
\* that does not parse goes to the catch block, which throws it again; else
\* the 'parsing' progress call, then the body is returned
FetchBody(cb, body) ==
  IF body.k = "syntax" THEN FetchRejected(ErrSyntax)
  ELSE IF CbThrows(cb, "parsing") THEN FetchRejected(ErrCallback)
  ELSE FetchResolved

\* variant of step 2 in which a failed setItem reaches the catch block
LoadBodyWriteThrows(store, t, cb, body) ==
  IF CbThrows(cb, "mapping")
  THEN [store |-> store, ret |-> LoadCatch(store, t, cb, ErrCallback)]
  ELSE IF body.k /= "list"
  THEN [store |-> store, ret |-> LoadCatch(store, t, cb, BodyError(body))]
  ELSE IF CbThrows(cb, "validating")
  THEN [store |-> store, ret |-> LoadCatch(store, t, cb, ErrCallback)]
  ELSE LET after(in) ==
             IF store.writeFail /= "none"
             THEN [store |-> in.store,
                   ret |-> LoadCatch(in.store, t, cb, "QuotaExceededError")]
             ELSE IF CbThrows(cb, "complete")
             THEN [store |-> in.store, ret |-> LoadCatch(in.store, t, cb, ErrCallback)]
             ELSE [store |-> in.store,
                   ret |-> Resolved(ListOf(in.planets), ReportOf(in.report), SrcLive,
                                    in.fetchedAt, FALSE, "")]
       IN CHOOSE out \in {after(in) : in \in {Ingest(store, t, body.v)}} : TRUE

\* step 2 from the point where fetchNASAData has handed over the body, at
\* clock t: result and new storage
LoadBody(store, t, cb, body) ==
  IF CbThrows(cb, "mapping")
  THEN [store |-> store, ret |-> LoadCatch(store, t, cb, ErrCallback)]
  ELSE IF body.k /= "list"
  THEN [store |-> store, ret |-> LoadCatch(store, t, cb, BodyError(body))]
  ELSE IF CbThrows(cb, "validating")
  THEN [store |-> store, ret |-> LoadCatch(store, t, cb, ErrCallback)]
  ELSE LET after(in) ==
             IF CbThrows(cb, "complete")
             THEN [store |-> in.store, ret |-> LoadCatch(in.store, t, cb, ErrCallback)]
             ELSE [store |-> in.store,
                   ret |-> Resolved(ListOf(in.planets), ReportOf(in.report), SrcLive,
                                    in.fetchedAt, FALSE, "")]
       IN CHOOSE out \in {after(in) : in \in {Ingest(store, t, body.v)}} : TRUE

\* loadNASAPlanets from the point where the promise f of fetchNASAData has
\* settled, at clock t: the catch block when it is rejected, else the rest
\* of step 2
LoadAfterFetch(store, t, cb, f, body) ==
  IF f.status = "rejected"
  THEN [store |-> store, ret |-> LoadCatch(store, t, cb, f.error)]
  ELSE LoadBody(store, t, cb, body)

\* ------------------------------------------------------------------------
\* Science  (science.js): habitable zone, Earth Similarity Index, observer
\* utilities, enrichPlanet.
\* Units: starTemp in kelvin, starLum in solar luminosities, semiMajorAxis
\* in AU, ra and dec in whole degrees, vMag in whole magnitudes; stellar
\* fluxes in 1e-4 of the solar constant; ESI components in 1e-6, ESI scores
\* in thousandths (the code rounds them to three decimals).
\* A derived property that was never assigned is [k |-> "undefined"], one
\* that holds null is [k |-> "null"], an object is [k |-> "obj", ...].

\* a number the code tests for truthiness: null, undefined, NaN, 0 are falsy
Falsy(v) == v \in {Null, NaN, 0}
JsGte(a, b) == JsLte(b, a)
\* a null operand of <, <=, >, >= counts as 0
Rel(v) == IF v = Null THEN 0 ELSE v

Undefined == [k |-> "undefined"]
NullObj == [k |-> "null"]

\* Kopparapu coefficients: S0 in 1e-4, a in 1e-12, b in 1e-16, c and d in 1e-20
HZ_COEFFICIENTS ==
  [ recentVenus   |-> [S0 |-> 17763, a |-> 143350000, b |-> 33954000,
                       c |-> -763640000, d |-> -119500],
    runawayGH     |-> [S0 |-> 10385, a |-> 124560000, b |-> 146120000,
                       c |-> -763450000, d |-> -175110],
    maxGreenhouse |-> [S0 |-> 3507, a |-> 59578000, b |-> 16707000,
                       c |-> -300580000, d |-> -51925],
    earlyMars     |-> [S0 |-> 3207, a |-> 54471000, b |-> 15275000,
                       c |-> -217090000, d |-> -38282] ]

\* one term coeff * tStar^power * 10^(4 * limbs) of the polynomial, in 1e-20:
\* its magnitude and whether it is negative
FluxTerm(coeff, tStar, power, limbs) ==
  [ size |-> BigStrip([j \in 1..limbs |-> 0] \o BigMulPow(BigOf(Abs(coeff)), Abs(tStar), power)),
    negative |-> (coeff < 0) /= (tStar < 0 /\ power % 2 = 1) ]

\* S0 + a t + b t^2 + c t^3 + d t^4 for t = tStar, exactly, in 1e-20 of the
\* solar constant: the sum of the positive terms and that of the negative
FluxTerms(coeffs, tStar) ==
  <<FluxTerm(coeffs.S0, tStar, 0, 4), FluxTerm(coeffs.a, tStar, 1, 2),
    FluxTerm(coeffs.b, tStar, 2, 1), FluxTerm(coeffs.c, tStar, 3, 0),
    FluxTerm(coeffs.d, tStar, 4, 0)>>
RECURSIVE SumTerms(_, _, _)
SumTerms(terms, negative, i) ==
  IF i > Len(terms) THEN <<>>
  ELSE CHOOSE out \in {IF terms[i].negative = negative THEN BigAdd(terms[i].size, rest)
                                                       ELSE rest :
                         rest \in {SumTerms(terms, negative, i + 1)}} : TRUE
ExactFlux(coeffs, tStar) ==
  CHOOSE out \in {[plus |-> SumTerms(terms, FALSE, 1), minus |-> SumTerms(terms, TRUE, 1)] :
                    terms \in {FluxTerms(coeffs, tStar)}} : TRUE

\* sEff(coeffs) for t = tStar in 1e-4, rounded to the nearest
sEff(coeffs, tStar) ==
  CHOOSE out \in
    {BigValue(BigDivSmall(BigDivSmall(BigDivSmall(BigDivSmall(
        BigAdd(BigSub(f.plus, f.minus), [j \in 1..4 |-> IF j = 4 THEN 5000 ELSE 0]),
        10000).q, 10000).q, 10000).q, 10000).q) :
       f \in {ExactFlux(coeffs, tStar)}} : TRUE

Max(a, b) == IF a >= b THEN a ELSE b
Min(a, b) == IF a <= b THEN a ELSE b

\* tClamped - 5780
TStar(starTeff) == Max(2600, Min(7200, starTeff)) - 5780

\* a >= Math.sqrt(starLum / sEff(coeffs)) and a <= Math.sqrt(starLum / sEff(coeffs))
\* for a > 0 and starLum > 0, compared as real numbers: a * a * flux against
\* starLum (the square root of Infinity is Infinity)
Boundary(a, starLum, coeffs, tStar) ==
  IF starLum = Inf THEN (IF a = Inf THEN "on" ELSE "inside")
  ELSE IF a = Inf THEN "outside"
  ELSE CHOOSE out \in
         {IF BigLess(sides.left, sides.right) THEN "inside"
          ELSE IF sides.left = sides.right THEN "on" ELSE "outside" :
            sides \in {[left |-> BigAdd(BigMul(BigMul(BigOf(a), BigOf(a)), f.plus),
                                       <<>>),
                        right |-> BigAdd(BigMul(BigMul(BigOf(a), BigOf(a)), f.minus),
                                         BigStrip([j \in 1..5 |-> 0] \o BigOf(starLum)))] :
                         f \in {ExactFlux(coeffs, tStar)}}} : TRUE

\* calculateHabitableZone: null without star data; else the model keeps the
\* star's luminosity and, for each boundary distance sqrt(starLum / flux),
\* the flux in 1e-4
calculateHabitableZone(starTeff, starLum) ==
  IF Falsy(starTeff) \/ Falsy(starLum) \/ JsLte(starLum, 0) THEN NullObj
  ELSE CHOOSE out \in
         {[ k |-> "obj",
            starLum |-> starLum,
            conservativeInner |-> sEff(HZ_COEFFICIENTS.runawayGH, tStar),
            conservativeOuter |-> sEff(HZ_COEFFICIENTS.maxGreenhouse, tStar),
            optimisticInner |-> sEff(HZ_COEFFICIENTS.recentVenus, tStar),
            optimisticOuter |-> sEff(HZ_COEFFICIENTS.earlyMars, tStar),
            modelValid |-> starTeff >= 2600 /\ starTeff <= 7200 ] :
              tStar \in {TStar(starTeff)}} : TRUE

getHZStatus(planet) ==
  LET a == planet.semiMajorAxis
      status(hz, inConservative, inOptimistic, tooHot) ==
        [k |-> "obj", conservative |-> inConservative, optimistic |-> inOptimistic,
         label |-> IF inConservative THEN "In Conservative HZ"
                   ELSE IF inOptimistic THEN "In Optimistic HZ"
                   ELSE IF tooHot THEN "Too Hot (inside HZ)"
                   ELSE "Too Cold (outside HZ)",
         hz |-> hz,
         confidence |-> IF hz.modelValid THEN "high" ELSE "moderate"]
      compared(hz, t) ==
        CHOOSE out \in
          {status(hz,
                  cInner \in {"on", "outside"} /\ cOuter \in {"on", "inside"},
                  oInner \in {"on", "outside"} /\ oOuter \in {"on", "inside"},
                  oInner = "inside") :
             cInner \in {Boundary(a, planet.starLum, HZ_COEFFICIENTS.runawayGH, t)},
             cOuter \in {Boundary(a, planet.starLum, HZ_COEFFICIENTS.maxGreenhouse, t)},
             oInner \in {Boundary(a, planet.starLum, HZ_COEFFICIENTS.recentVenus, t)},
             oOuter \in {Boundary(a, planet.starLum, HZ_COEFFICIENTS.earlyMars, t)}} : TRUE
      known(hz) ==
        IF hz.k = "null" \/ Falsy(a) \/ JsLte(a, 0)
        THEN [k |-> "obj", conservative |-> FALSE, optimistic |-> FALSE, label |-> "Unknown",
              hz |-> NullObj, confidence |-> "low"]
        ELSE compared(hz, TStar(planet.starTemp))
  IN CHOOSE out \in {known(hz) :
                       hz \in {calculateHabitableZone(planet.starTemp, planet.starLum)}} : TRUE

\* the values of the ESI formulas, which raise to real powers, at the radii,
\* masses and temperatures of the records of the model: the four components
\* in 1e-6 and the rounded interior, surface and global scores in thousandths
EsiRadius(r) ==
  CASE r = 1 -> 1000000
    [] r = 2 -> 793648
    [] r = 4 -> 593163
    [] r = 9 -> 399565
    [] r = 13 -> 329833
EsiDensity(r, m) ==
  CASE <<r, m>> = <<1, 1>> -> 1000000
    [] <<r, m>> = <<2, 9>> -> 937191
    [] <<r, m>> = <<4, 32>> -> 648011
    [] <<r, m>> = <<9, 45>> -> 100020
    [] <<r, m>> = <<13, 65>> -> 47056
EsiEscapeVelocity(r, m) ==
  CASE <<r, m>> = <<1, 1>> -> 1000000
    [] <<r, m>> = <<2, 9>> -> 732292
    [] <<r, m>> = <<4, 32>> -> 634756
    [] <<r, m>> = <<9, 45>> -> 714017
    [] <<r, m>> = <<13, 65>> -> 714017
EsiSurfaceTemp(t) ==
  CASE t = 251 -> 956680
    [] t = 255 -> 1000000
    [] t = 262 -> 926754
    [] t = 300 -> 623859
    [] t = 342 -> 415245
    [] t = 400 -> 247523
    [] t = 1390 -> 1452
EsiInterior(r, m) ==
  CASE <<r, m>> = <<1, 1>> -> 1000
    [] <<r, m>> = <<2, 9>> -> 862
    [] <<r, m>> = <<4, 32>> -> 620
    [] <<r, m>> = <<9, 45>> -> 200
    [] <<r, m>> = <<13, 65>> -> 125
EsiSurface(r, m, t) ==
  CASE <<r, m, t>> = <<1, 1, 251>> -> 978
    [] <<r, m, t>> = <<1, 1, 255>> -> 1000
    [] <<r, m, t>> = <<1, 1, 342>> -> 644
    [] <<r, m, t>> = <<1, 1, 400>> -> 498
    [] <<r, m, t>> = <<2, 9, 262>> -> 824
    [] <<r, m, t>> = <<4, 32, 1390>> -> 30
    [] <<r, m, t>> = <<9, 45, 255>> -> 845
    [] <<r, m, t>> = <<13, 65, 300>> -> 667
EsiGlobal(r, m, t) ==
  CASE <<r, m, t>> = <<1, 1, 251>> -> 989
    [] <<r, m, t>> = <<1, 1, 255>> -> 1000
    [] <<r, m, t>> = <<1, 1, 342>> -> 803
    [] <<r, m, t>> = <<1, 1, 400>> -> 705
    [] <<r, m, t>> = <<2, 9, 262>> -> 843
    [] <<r, m, t>> = <<4, 32, 1390>> -> 137
    [] <<r, m, t>> = <<9, 45, 255>> -> 411
    [] <<r, m, t>> = <<13, 65, 300>> -> 288

\* what esiComponent makes of a value: a positive finite one has a value,
\* null or one that is <= 0 gives null, NaN and Infinity give NaN
KindOf(v) == IF v \in {NaN, Inf} THEN "nan"
             ELSE IF v = Null \/ v <= 0 THEN "null" ELSE "value"
\* density = mass / r^3 * 5.51 (mass and r are not 0 here)
DensityKind(r, mass) ==
  IF mass = NaN THEN "nan"
  ELSE IF mass = Inf THEN (IF r /= Inf /\ r < 0 THEN "null" ELSE "nan")
  ELSE IF r = Inf THEN "null"
  ELSE IF (mass > 0) = (r > 0) THEN "value" ELSE "null"
\* escapeVelocity = sqrt(mass / r) * 11.186
EscapeKind(r, mass) ==
  IF mass \in {NaN, Inf} THEN "nan"
  ELSE IF r = Inf THEN "null"
  ELSE IF (mass > 0) = (r > 0) THEN "value" ELSE "nan"

EmptyObject == [k |-> "empty"]

calculateESI(planet) ==
  IF Falsy(planet.radius) \/ Falsy(planet.eqTemp)
  THEN [k |-> "obj", global |-> 0, interior |-> Null, surface |-> Null,
        components |-> EmptyObject, confidence |-> "low",
        note |-> "Insufficient data to compute ESI."]
  ELSE LET r == planet.radius
           t == planet.eqTemp
           mass == IF Falsy(planet.mass) THEN Pow25(r) ELSE planet.mass
           kinds == [radius |-> KindOf(r), density |-> DensityKind(r, mass),
                     escapeVelocity |-> EscapeKind(r, mass), surfaceTemp |-> KindOf(t)]
           NoValue(kind) == IF kind = "nan" THEN NaN ELSE Null
           components ==
             [radius |-> IF kinds.radius = "value" THEN EsiRadius(r)
                         ELSE NoValue(kinds.radius),
              density |-> IF kinds.density = "value" THEN EsiDensity(r, mass)
                          ELSE NoValue(kinds.density),
              escapeVelocity |-> IF kinds.escapeVelocity = "value"
                                 THEN EsiEscapeVelocity(r, mass)
                                 ELSE NoValue(kinds.escapeVelocity),
              surfaceTemp |-> IF kinds.surfaceTemp = "value" THEN EsiSurfaceTemp(t)
                              ELSE NoValue(kinds.surfaceTemp)]
           names == {"radius", "density", "escapeVelocity", "surfaceTemp"}
           valid == {n \in names : kinds[n] /= "null"}
       IN [k |-> "obj",
           global |-> IF valid = {} THEN 0
                      ELSE IF \E n \in valid : kinds[n] = "nan" THEN NaN
                      ELSE CASE valid = names -> EsiGlobal(r, mass, t),
           interior |-> IF kinds.radius = "null" \/ kinds.density = "null" THEN Null
                        ELSE IF "nan" \in {kinds.radius, kinds.density} THEN NaN
                        ELSE EsiInterior(r, mass),
           surface |-> IF kinds.escapeVelocity = "null" \/ kinds.surfaceTemp = "null"
                       THEN Null
                       ELSE IF "nan" \in {kinds.escapeVelocity, kinds.surfaceTemp} THEN NaN
                       ELSE EsiSurface(r, mass, t),
           components |-> components,
           confidence |-> IF planet.mass /= Null /\ planet.eqTemp /= Null
                             /\ ~planet.eqTempEstimated THEN "high" ELSE "moderate",
           note |-> IF planet.mass = Null
                    THEN "Mass estimated from radius using M-R relation." ELSE ""]

\* ------------------------------------------------------------------------
\* Observer utilities  (science.js)

\* hours, minutes and tenths of seconds of raDeg / 15 as formatRADec
\* computes them, every intermediate result a double
SexagesimalHours(raDeg) ==
  IF raDeg = 0 THEN [h |-> 0, m |-> 0, s10 |-> 0]
  ELSE LET seconds(raMinRem) ==
             ToFixed1(NearestDouble(BigMulSmall(DoubleFraction(raMinRem), 60), raMinRem.k))
           minutes(raHours, frac) ==
             CHOOSE out \in {[h |-> raHours, m |-> DoubleFloor(raMinRem),
                              s10 |-> seconds(raMinRem)] :
                               raMinRem \in {IF frac = Zero THEN Zero
                                             ELSE NearestDouble(BigMulSmall(frac.m, 60), frac.k)}}
               : TRUE
           hours(raH) ==
             IF raDeg > 0 \/ DoubleFraction(raH) = <<>>
             THEN minutes((IF raDeg > 0 THEN 1 ELSE -1) * DoubleFloor(raH),
                          NearestDouble(DoubleFraction(raH), raH.k))
             ELSE minutes(-(DoubleFloor(raH) + 1),
                          NearestDouble(BigSub(BigShl(BigOf(DoubleFloor(raH) + 1), raH.k), raH.m),
                                        raH.k))
       IN CHOOSE out \in {hours(raH) : raH \in {QuotientDouble(Abs(raDeg), 15)}} : TRUE

\* formatRADec on whole degrees, as the numbers its strings are made of:
\* hours, minutes and tenths of seconds of right ascension; sign, degrees,
\* minutes and seconds of declination (a whole number of degrees has no
\* fraction: minutes and seconds are 0)
formatRADec(raDeg, decDeg) ==
  IF raDeg = Null \/ decDeg = Null THEN [k |-> "obj", ra |-> Null, dec |-> Null]
  ELSE LET decAbs == IF decDeg < 0 THEN -decDeg ELSE decDeg
       IN [k |-> "obj",
           ra |-> SexagesimalHours(raDeg),
           dec |-> [sign |-> IF decDeg >= 0 THEN "+" ELSE "-", d |-> decAbs, m |-> 0, s |-> 0],
           raDeg |-> raDeg, decDeg |-> decDeg]

\* right ascension bounds in tenths of an hour, declination in degrees
Constellation(name, abbr, raMin, raMax, decMin, decMax) ==
  [name |-> name, abbr |-> abbr, raMin |-> raMin, raMax |-> raMax,
   decMin |-> decMin, decMax |-> decMax]
CONSTELLATIONS ==
  << Constellation("Andromeda", "And", 228, 24, 21, 53),
     Constellation("Aquarius", "Aqr", 206, 238, -25, 3),
     Constellation("Aquila", "Aql", 188, 206, -12, 18),
     Constellation("Aries", "Ari", 15, 35, 10, 31),
     Constellation("Boötes", "Boo", 135, 158, 7, 55),
     Constellation("Cancer", "Cnc", 79, 93, 7, 33),
     Constellation("Canis Major", "CMa", 60, 75, -33, -11),
     Constellation("Capricornus", "Cap", 200, 218, -28, -8),
     Constellation("Cassiopeia", "Cas", 225, 35, 46, 77),
     Constellation("Centaurus", "Cen", 110, 150, -64, -30),
     Constellation("Cetus", "Cet", 235, 33, -25, 10),
     Constellation("Cygnus", "Cyg", 191, 218, 28, 61),
     Constellation("Draco", "Dra", 94, 205, 48, 86),
     Constellation("Eridanus", "Eri", 14, 51, -58, 0),
     Constellation("Gemini", "Gem", 59, 81, 10, 35),
     Constellation("Hercules", "Her", 160, 188, 14, 51),
     Constellation("Hydra", "Hya", 81, 150, -35, 7),
     Constellation("Leo", "Leo", 93, 120, -6, 33),
     Constellation("Libra", "Lib", 142, 160, -30, 0),
     Constellation("Lyra", "Lyr", 181, 194, 25, 48),
     Constellation("Ophiuchus", "Oph", 160, 180, -30, 14),
     Constellation("Orion", "Ori", 45, 64, -11, 23),
     Constellation("Pegasus", "Peg", 211, 2, 2, 36),
     Constellation("Perseus", "Per", 14, 45, 31, 59),
     Constellation("Pisces", "Psc", 225, 20, -6, 34),
     Constellation("Sagittarius", "Sgr", 177, 204, -45, -12),
     Constellation("Scorpius", "Sco", 158, 178, -45, -8),
     Constellation("Taurus", "Tau", 33, 60, 0, 31),
     Constellation("Ursa Major", "UMa", 80, 145, 29, 73),
     Constellation("Ursa Minor", "UMi", 0, 240, 66, 90),
     Constellation("Virgo", "Vir", 116, 150, -22, 14),
     Constellation("Vela", "Vel", 80, 110, -56, -37),
     Constellation("Puppis", "Pup", 60, 85, -50, -11),
     Constellation("Carina", "Car", 60, 113, -75, -51),
     Constellation("Crux", "Cru", 119, 126, -64, -56) >>

\* raDeg / 15 >= c.raMin, raDeg / 15 <= c.raMax with the bound in tenths
RaMatch(raDeg, c) ==
  IF c.raMin > c.raMax
  THEN 2 * raDeg >= 3 * c.raMin \/ 2 * raDeg <= 3 * c.raMax
  ELSE 2 * raDeg >= 3 * c.raMin /\ 2 * raDeg <= 3 * c.raMax
InConstellation(raDeg, decDeg, c) ==
  RaMatch(raDeg, c) /\ decDeg >= c.decMin /\ decDeg <= c.decMax

\* the first row of the table that matches
getConstellation(raDeg, decDeg) ==
  IF raDeg = Null \/ decDeg = Null THEN NullObj
  ELSE LET hits == {i \in 1..Len(CONSTELLATIONS) :
                      InConstellation(raDeg, decDeg, CONSTELLATIONS[i])}
       IN IF hits = {} THEN [k |-> "obj", name |-> "Unknown", abbreviation |-> "---"]
          ELSE LET c == CONSTELLATIONS[CHOOSE i \in hits : \A j \in hits : i <= j]
               IN [k |-> "obj", name |-> c.name, abbreviation |-> c.abbr]

\* right ascension of the Sun by month, in thirtieths of an hour (19.5h ...)
SunRA == [m \in 0..11 |-> ((585 + 60 * m) % 720)]
monthAbbr == <<"Jan", "Feb", "Mar", "Apr", "May", "Jun",
               "Jul", "Aug", "Sep", "Oct", "Nov", "Dec">>

\* diff (and diff2, which is the same number) for month m, in thirtieths of
\* an hour: |raH - sunRA[m] + 12|, replaced by 24 - diff when above 12
SunDiff(raDeg, m) ==
  LET diff == Abs(2 * raDeg - SunRA[m] + 360)
  IN IF diff > 360 THEN 720 - diff ELSE diff

\* the loop keeps the first month whose difference is strictly smaller
\* than every earlier one (and than 24)
BestMonth(raDeg) ==
  LET better == {m \in 0..11 : SunDiff(raDeg, m) < 720}
  IN IF better = {} THEN 0
     ELSE CHOOSE m \in better :
            /\ \A j \in better : SunDiff(raDeg, m) <= SunDiff(raDeg, j)
            /\ \A j \in better : j < m => SunDiff(raDeg, j) > SunDiff(raDeg, m)

getObservability(raDeg, decDeg) ==
  IF raDeg = Null THEN NullObj
  ELSE LET bestMonth == BestMonth(raDeg)
           circumpolarN == decDeg /= Null /\ decDeg > 50
           circumpolarS == decDeg /= Null /\ decDeg < -50
       IN [k |-> "obj",
           bestMonthIndex |-> bestMonth,
           bestMonthAbbr |-> monthAbbr[bestMonth + 1],
           seasonStart |-> monthAbbr[((bestMonth - 2 + 12) % 12) + 1],
           seasonEnd |-> monthAbbr[((bestMonth + 2) % 12) + 1],
           hemisphere |-> IF decDeg = Null THEN "Unknown"
                          ELSE IF decDeg > 60 THEN "Northern hemisphere only"
                          ELSE IF decDeg > 20 THEN "Best from Northern hemisphere"
                          ELSE IF decDeg > -20 THEN "Visible from both hemispheres"
                          ELSE IF decDeg > -60 THEN "Best from Southern hemisphere"
                          ELSE "Southern hemisphere only",
           circumpolarNorth |-> circumpolarN,
           circumpolarSouth |-> circumpolarS]

getMagnitudeGuidance(vMag) ==
  IF vMag = Null THEN [k |-> "obj", label |-> "Unknown", magnitude |-> Null,
                       confidence |-> "low"]
  ELSE [k |-> "obj",
        label |-> IF vMag < 0 THEN "Very Bright"
                  ELSE IF vMag < 2 THEN "Bright"
                  ELSE IF vMag < 4 THEN "Moderate"
                  ELSE IF vMag < 6 THEN "Dim"
                  ELSE IF vMag < 8 THEN "Binocular"
                  ELSE IF vMag < 10 THEN "Small Telescope"
                  ELSE IF vMag < 13 THEN "Medium Telescope"
                  ELSE IF vMag < 16 THEN "Large Telescope"
                  ELSE "Professional Only",
        magnitude |-> vMag,
        confidence |-> "high"]

\* ------------------------------------------------------------------------
\* Discovery method metadata  (science.js)

\* the keys of DISCOVERY_METHODS with the id of each entry
DISCOVERY_METHODS ==
  << <<"Transit", "transit">>,
     <<"Radial Velocity", "radialVelocity">>,
     <<"Direct Imaging", "directImaging">>,
     <<"Microlensing", "microlensing">>,
     <<"Timing", "timing">>,
     <<"Astrometry", "astrometry">>,
     <<"Transit Timing Variations", "ttv">>,
     <<"Imaging", "imaging">>,
     <<"Eclipse Timing Variations", "etv">>,
     <<"Pulsar Timing", "pulsarTiming">>,
     <<"Orbital Brightness Modulation", "obm">>,
     <<"Disk Kinematics", "diskKinematics">> >>

\* METHOD_ALIASES: name in the archive, key of DISCOVERY_METHODS
METHOD_ALIASES ==
  << <<"Transit", "Transit">>,
     <<"Radial Velocity", "Radial Velocity">>,
     <<"Direct Imaging", "Direct Imaging">>,
     <<"Microlensing", "Microlensing">>,
     <<"Imaging", "Direct Imaging">>,
     <<"Astrometry", "Astrometry">>,
     <<"Transit Timing Variations", "Transit Timing Variations">>,
     <<"Eclipse Timing Variations", "Eclipse Timing Variations">>,
     <<"Pulsar Timing", "Pulsar Timing">>,
     <<"Pulsation Timing Variations", "Timing">>,
     <<"Orbital Brightness Modulation", "Orbital Brightness Modulation">>,
     <<"Disk Kinematics", "Disk Kinematics">> >>

\* table[key] on a table of pairs; "" when the key is not in it
Lookup(table, key) ==
  IF \E i \in 1..Len(table) : table[i][1] = key
  THEN table[CHOOSE i \in 1..Len(table) : table[i][1] = key][2]
  ELSE ""

\* both tables are plain objects: a name every object inherits finds the
\* inherited member in DISCOVERY_METHODS, which is returned as the entry
getDiscoveryMethodInfo(methodName) ==
  IF methodName = "" THEN NullObj
  ELSE IF methodName \in ObjectPrototypeKeys THEN [k |-> "obj", id |-> "inherited"]
  ELSE LET normalized == IF Lookup(METHOD_ALIASES, methodName) /= ""
                         THEN Lookup(METHOD_ALIASES, methodName) ELSE methodName
       IN IF Lookup(DISCOVERY_METHODS, normalized) /= ""
          THEN [k |-> "obj", id |-> Lookup(DISCOVERY_METHODS, normalized)]
          ELSE IF Lookup(DISCOVERY_METHODS, methodName) /= ""
          THEN [k |-> "obj", id |-> Lookup(DISCOVERY_METHODS, methodName)]
          ELSE NullObj

\* ------------------------------------------------------------------------
\* enrichPlanet  (science.js)

\* the properties enrichPlanet attaches
DerivedProperties == {"hzStatus", "esi", "coords", "constellation", "observability",
                      "magnitudeGuidance", "discoveryMethodInfo"}
NotEnriched == [f \in DerivedProperties |-> Undefined]

\* variant that keeps the mass it estimated for the ESI on the planet
enrichPlanetStoresMass(planet) ==
  LET hasCoords == planet.ra /= Null /\ planet.dec /= Null
  IN [planet EXCEPT
        !.hzStatus = getHZStatus(planet),
        !.esi = calculateESI(planet),
        !.mass = IF Falsy(planet.radius) \/ Falsy(planet.eqTemp) \/ ~Falsy(planet.mass)
                 THEN @ ELSE Pow25(planet.radius),
        !.coords = IF hasCoords THEN formatRADec(planet.ra, planet.dec) ELSE @,
        !.constellation = IF hasCoords THEN getConstellation(planet.ra, planet.dec) ELSE @,
        !.observability = IF hasCoords THEN getObservability(planet.ra, planet.dec) ELSE @,
        !.magnitudeGuidance = IF planet.vMag /= Null THEN getMagnitudeGuidance(planet.vMag)
                              ELSE @,
        !.discoveryMethodInfo = IF planet.discoveryMethod /= ""
                                THEN getDiscoveryMethodInfo(planet.discoveryMethod) ELSE @]

\* enrichPlanet(planet): the planet after the call (the code assigns to the
\* object it is given and returns it)
enrichPlanet(planet) ==
  LET hasCoords == planet.ra /= Null /\ planet.dec /= Null
  IN [planet EXCEPT
        !.hzStatus = getHZStatus(planet),
        !.esi = calculateESI(planet),
        !.coords = IF hasCoords THEN formatRADec(planet.ra, planet.dec) ELSE @,
        !.constellation = IF hasCoords THEN getConstellation(planet.ra, planet.dec) ELSE @,
        !.observability = IF hasCoords THEN getObservability(planet.ra, planet.dec) ELSE @,
        !.magnitudeGuidance = IF planet.vMag /= Null THEN getMagnitudeGuidance(planet.vMag)
                              ELSE @,
        !.discoveryMethodInfo = IF planet.discoveryMethod /= ""
                                THEN getDiscoveryMethodInfo(planet.discoveryMethod) ELSE @]

\* ------------------------------------------------------------------------
\* Catalog Store  (database.js)

\* a falsy or missing number read as the code's comparisons read it
ToNum(v) == IF v = Null THEN 0 ELSE v

\* classifyPlanet on whole Earth radii: r > 3.5 is r >= 4, r > 1.6 is r >= 2,
\* r < 0.5 is r <= 0
classifyPlanet(radius, mass, eqTemp) ==
  LET r == IF radius \in {Null, NaN, 0} THEN 1 ELSE radius
      temp == ToNum(eqTemp)
  IN IF JsGt(temp, 1500) /\ JsLt(r, 2) THEN "Lava World"
     ELSE IF JsGt(r, 8)
     THEN (IF JsGt(temp, 1000) THEN "Hot Jupiter"
           ELSE IF JsGt(temp, 400) THEN "Warm Jupiter" ELSE "Cold Jupiter")
     ELSE IF JsGt(r, 3)
     THEN (IF JsGt(temp, 800) THEN "Hot Neptune"
           ELSE IF JsGt(temp, 200) THEN "Warm Neptune" ELSE "Ice Giant")
     ELSE IF JsGt(r, 1)
     THEN (IF JsGt(temp, 500) THEN "Super-Earth"
           ELSE IF JsGt(temp, 200) THEN "Water World" ELSE "Super-Earth")
     ELSE IF JsLt(r, 1) THEN "Sub-Earth"
     ELSE IF JsGt(temp, 600) THEN "Lava World"
     ELSE IF JsLt(temp, 180) THEN "Desert World"
     ELSE "Rocky Terrestrial"

\* calculateHabitability, in hundredths.  On whole radii, masses and axes
\* 0.5 <= r <= 2 is r in 1..2, 0.3 <= m <= 5 is m in 1..5, and so on
calculateHabitability(planet) ==
  LET t == IF Falsy(planet.eqTemp) THEN 0 ELSE planet.eqTemp
      r == IF Falsy(planet.radius) THEN 0 ELSE planet.radius
      m == IF Falsy(planet.mass) THEN 0 ELSE planet.mass
      a == planet.semiMajorAxis
      s == IF planet.starType = "" THEN "" ELSE SubSeq(planet.starType, 1, 1)
      temperature == IF JsGte(t, 200) /\ JsLte(t, 310) THEN 35
                     ELSE IF JsGte(t, 150) /\ JsLte(t, 400) THEN 15 ELSE 2
      size == IF JsGte(r, 1) /\ JsLte(r, 2) THEN 25
              ELSE IF JsGte(r, 1) /\ JsLte(r, 3) THEN 10 ELSE 1
      massTerm == IF JsGt(m, 0)
                  THEN (IF JsLte(m, 5) THEN 15 ELSE IF JsLte(m, 10) THEN 5 ELSE 0)
                  ELSE 5
      star == IF s = "" THEN 5
              ELSE IF s \in {"G", "K"} THEN 15
              ELSE IF s \in {"F", "M"} THEN 8 ELSE 2
      orbit == IF Falsy(a) THEN 3
               ELSE IF JsGte(a, 1) /\ JsLte(a, 2) THEN 10
               ELSE IF JsGte(a, 1) /\ JsLte(a, 5) THEN 4 ELSE 0
  IN Min(temperature + size + massTerm + star + orbit, 100)

\* the object literal of processNASAPlanets with its habitability: the
\* record plus id, type and nasaRaw (the atmosphere is derived from type
\* and eqTemp alone and is not carried here)
PlanetObject(p, id) ==
  [id |-> id, type |-> classifyPlanet(p.radius, p.mass, p.eqTemp), nasaRaw |-> TRUE,
   habitability |-> calculateHabitability(p)] @@ NotEnriched @@ p

\* one catalog entry: the object, enriched
CatalogEntry(p, id) ==
  CHOOSE entry \in {enrichPlanet(planet) : planet \in {PlanetObject(p, id)}} : TRUE

processNASAPlanets(nasaPlanets) ==
  [i \in 1..Len(nasaPlanets) |-> CatalogEntry(nasaPlanets[i], i - 1)]

\* PLANET_CATALOG is the array buildCatalog() returned when the module was
\* evaluated, or an array processNASAPlanets built.  Of the bundled array
\* (the curated planets followed by the procedural ones) its identity and
\* its length are carried, not its planets: their values are fractions the
\* units of the model do not hold (TRAPPIST-1b orbits at 0.01154 AU)
CURATED_COUNT == 107
PROCEDURAL_COUNT == 4900
buildCatalog == [k |-> "built-in", length |-> CURATED_COUNT + PROCEDURAL_COUNT]
ArrayOf(planets) == [k |-> "array", v |-> planets]
CatalogLength(catalog) == IF catalog.k = "built-in" THEN catalog.length ELSE Len(catalog.v)
\* what a reader returns on the bundled array: as little carried as its
\* planets
OfBuiltIn == [k |-> "of built-in"]

\* ------------------------------------------------------------------------
\* Catalog readers  (database.js): searchPlanets, getPlanetByName,
\* getSystemPlanets, getCatalogStats

UpperCaseLetters == "ABCDEFGHIJKLMNOPQRSTUVWXYZ"
LowerCaseLetters == "abcdefghijklmnopqrstuvwxyz"
CharAt(s, i) == SubSeq(s, i, i)

\* String.prototype.toLowerCase on the characters of the model
LowerCaseOf == [c \in {CharAt(UpperCaseLetters, i) : i \in 1..26} |->
                 CharAt(LowerCaseLetters,
                        CHOOSE i \in 1..26 : CharAt(UpperCaseLetters, i) = c)]
LowerChar(c) == IF c \in DOMAIN LowerCaseOf THEN LowerCaseOf[c] ELSE c
toLowerCase(s) ==
  LET lower[i \in 0..Len(s)] ==
        IF i = 0 THEN "" ELSE lower[i - 1] \o LowerChar(CharAt(s, i))
  IN lower[Len(s)]

\* String.prototype.trim (blanks are the only white space of the model):
\* from the first to the last character that is not a blank
trim(s) ==
  LET inked == {i \in 1..Len(s) : CharAt(s, i) /= " "}
  IN IF inked = {} THEN ""
     ELSE SubSeq(s, CHOOSE i \in inked : \A j \in inked : i <= j,
                    CHOOSE i \in inked : \A j \in inked : i >= j)

\* String.prototype.includes and startsWith
includes(s, q) == \E i \in 1..(Len(s) - Len(q) + 1) : SubSeq(s, i, i + Len(q) - 1) = q
startsWith(s, prefix) == Len(s) >= Len(prefix) /\ SubSeq(s, 1, Len(prefix)) = prefix

\* va < vb on strings: by UTF-16 code unit, a proper prefix first.  The
\* characters of lower-cased names, in the order of their codes
CodeOrder == " -0123456789abcdefghijklmnopqrstuvwxyz"
CodeOf == [c \in {CharAt(CodeOrder, i) : i \in 1..Len(CodeOrder)} |->
            CHOOSE i \in 1..Len(CodeOrder) : CharAt(CodeOrder, i) = c]
CharCode(c) == CodeOf[c]
StringLess(a, b) ==
  LET differ == {i \in 1..Min(Len(a), Len(b)) : CharAt(a, i) /= CharAt(b, i)}
  IN IF differ = {} THEN Len(a) < Len(b)
     ELSE LET k == CHOOSE i \in differ : \A j \in differ : i <= j
          IN CharCode(CharAt(a, k)) < CharCode(CharAt(b, k))

\* results.sort((a, b) => ...).  sortBy names a property that holds a
\* string in every record (compared lower-cased), a numeric one (null
\* where unknown), or 'esi' for esi.global; sortBy and sortDir are "" when
\* the option is not supplied
StringSortKeys == {"name", "system", "type"}
SortValue(p, sortBy) ==
  IF sortBy = "esi" THEN (IF p.esi.k = "obj" THEN p.esi.global ELSE 0)
  ELSE IF sortBy \in StringSortKeys THEN toLowerCase(p[sortBy])
  ELSE p[sortBy]
\* va < vb, a null standing for Infinity ('asc') or -Infinity
ValueLess(va, vb, sortBy, asc) ==
  IF sortBy \in StringSortKeys THEN StringLess(va, vb)
  ELSE IF ~asc /\ va = Null THEN vb \notin {Null, NaN}
  ELSE IF ~asc /\ vb = Null THEN FALSE
  ELSE JsLt(IF va = Null THEN Inf ELSE va, IF vb = Null THEN Inf ELSE vb)
\* the comparator: -1, 0 or 1
Compare(a, b, sortBy, sortDir) ==
  LET by == IF sortBy = "" THEN "name" ELSE sortBy
      asc == sortDir \in {"", "asc"}
  IN IF ValueLess(SortValue(a, by), SortValue(b, by), by, asc)
     THEN (IF asc THEN -1 ELSE 1)
     ELSE IF ValueLess(SortValue(b, by), SortValue(a, by), by, asc)
     THEN (IF asc THEN 1 ELSE -1)
     ELSE 0

\* Array.prototype.sort on a short array: the run the array starts with
\* (reversed when it descends), then every later record inserted by binary
\* search.  The sort is stable: records whose keys compare equal keep their
\* earlier order
RECURSIVE RunEnd(_, _, _, _, _)
RunEnd(a, i, descending, sortBy, sortDir) ==
  IF i = Len(a) THEN i
  ELSE IF descending = (Compare(a[i + 1], a[i], sortBy, sortDir) < 0)
  THEN RunEnd(a, i + 1, descending, sortBy, sortDir)
  ELSE i
Reverse(a) == [i \in 1..Len(a) |-> a[Len(a) + 1 - i]]
RECURSIVE InsertionPoint(_, _, _, _, _, _)
InsertionPoint(a, pivot, left, right, sortBy, sortDir) ==
  IF left >= right THEN left
  ELSE IF Compare(pivot, a[left + (right - left) \div 2], sortBy, sortDir) < 0
  THEN InsertionPoint(a, pivot, left, left + (right - left) \div 2, sortBy, sortDir)
  ELSE InsertionPoint(a, pivot, left + (right - left) \div 2 + 1, right, sortBy, sortDir)
RECURSIVE InsertFrom(_, _, _, _)
InsertFrom(a, start, sortBy, sortDir) ==
  IF start > Len(a) THEN a
  ELSE CHOOSE out \in
         {InsertFrom(SubSeq(a, 1, left - 1) \o <<a[start]>> \o SubSeq(a, left, start - 1)
                       \o SubSeq(a, start + 1, Len(a)),
                     start + 1, sortBy, sortDir) :
            left \in {InsertionPoint(a, a[start], 1, start, sortBy, sortDir)}} : TRUE
SortResults(results, sortBy, sortDir) ==
  IF Len(results) < 2 THEN results
  ELSE LET descending == Compare(results[2], results[1], sortBy, sortDir) < 0
           run == RunEnd(results, 2, descending, sortBy, sortDir)
           made == IF descending
                   THEN Reverse(SubSeq(results, 1, run))
                        \o SubSeq(results, run + 1, Len(results))
                   ELSE results
       IN InsertFrom(made, run + 1, sortBy, sortDir)

\* a numeric option of filters that is undefined
Unset == -1000003
\* filters = {}  (a string option that is undefined or '' is "")
NoFilters ==
  [type |-> "", minHabitability |-> Unset, maxDistance |-> Unset, minDistance |-> Unset,
   minTemp |-> Unset, maxTemp |-> Unset, minRadius |-> Unset, maxRadius |-> Unset,
   starType |-> "", discoveredAfter |-> Unset, discoveryMethod |-> "", inHZ |-> "",
   minESI |-> Unset, sortBy |-> "", sortDir |-> ""]

\* the predicate of the text search for the trimmed, lower-cased query q
TextSearch(p, q) ==
  \/ includes(toLowerCase(p.name), q)
  \/ includes(toLowerCase(p.system), q)
  \/ includes(toLowerCase(p.type), q)
  \/ (p.discoveryMethod /= "" /\ includes(toLowerCase(p.discoveryMethod), q))
  \/ (p.constellation.k = "obj" /\ p.constellation.name /= ""
      /\ includes(toLowerCase(p.constellation.name), q))

\* variant that sorts PLANET_CATALOG itself when nothing was filtered out
searchPlanetsSortsInPlace(catalog, query, filters) ==
  LET hit(p) ==
        /\ trim(query) /= "" => TextSearch(p, toLowerCase(trim(query)))
        /\ filters.type /= "" => p.type = filters.type
        /\ filters.minHabitability /= Unset => p.habitability >= filters.minHabitability
        /\ filters.maxDistance /= Unset => JsLte(Rel(p.distance), filters.maxDistance)
        /\ filters.minDistance /= Unset => JsGte(Rel(p.distance), filters.minDistance)
        /\ filters.minTemp /= Unset => JsGte(Rel(p.eqTemp), filters.minTemp)
        /\ filters.maxTemp /= Unset => JsLte(Rel(p.eqTemp), filters.maxTemp)
        /\ filters.minRadius /= Unset => JsGte(Rel(p.radius), filters.minRadius)
        /\ filters.maxRadius /= Unset => JsLte(Rel(p.radius), filters.maxRadius)
        /\ filters.starType /= "" => startsWith(p.starType, filters.starType)
        /\ filters.discoveredAfter \notin {Unset, 0}
             => JsGte(Rel(p.discovered), filters.discoveredAfter)
        /\ filters.discoveryMethod /= "" => p.discoveryMethod = filters.discoveryMethod
        /\ filters.inHZ = "conservative" => p.hzStatus.conservative
        /\ filters.inHZ = "optimistic" => p.hzStatus.optimistic
        /\ filters.minESI /= Unset => JsGte(p.esi.global, filters.minESI)
  IN CHOOSE out \in {[results |-> SortResults(results, filters.sortBy, filters.sortDir),
                        catalog |-> IF Len(results) = Len(catalog)
                                    THEN SortResults(catalog, filters.sortBy,
                                                     filters.sortDir)
                                    ELSE catalog] :
                        results \in {SelectSeq(catalog, hit)}} : TRUE

\* searchPlanets(query, filters) on PLANET_CATALOG = catalog: the array it
\* returns and the catalog after the call.  The filters are applied one
\* after the other to a copy of the catalog, in the order of the code; a
\* filter whose option is not supplied keeps every record; what is left is
\* sorted
searchPlanets(catalog, query, filters) ==
  LET text(p) == (query = "" \/ trim(query) = "")
                 \/ TextSearch(p, toLowerCase(trim(query)))
      byType(p) == filters.type = "" \/ p.type = filters.type
      byMinHabitability(p) == filters.minHabitability = Unset
                              \/ p.habitability >= filters.minHabitability
      byMaxDistance(p) == filters.maxDistance = Unset
                          \/ JsLte(Rel(p.distance), filters.maxDistance)
      byMinDistance(p) == filters.minDistance = Unset
                          \/ JsGte(Rel(p.distance), filters.minDistance)
      byMinTemp(p) == filters.minTemp = Unset \/ JsGte(Rel(p.eqTemp), filters.minTemp)
      byMaxTemp(p) == filters.maxTemp = Unset \/ JsLte(Rel(p.eqTemp), filters.maxTemp)
      byMinRadius(p) == filters.minRadius = Unset \/ JsGte(Rel(p.radius), filters.minRadius)
      byMaxRadius(p) == filters.maxRadius = Unset \/ JsLte(Rel(p.radius), filters.maxRadius)
      byStarType(p) == filters.starType = ""
                       \/ (p.starType /= "" /\ startsWith(p.starType, filters.starType))
      byYear(p) == filters.discoveredAfter \in {Unset, 0}
                   \/ JsGte(Rel(p.discovered), filters.discoveredAfter)
      byMethod(p) == filters.discoveryMethod = ""
                     \/ p.discoveryMethod = filters.discoveryMethod
      byHZ(p) == IF filters.inHZ = "conservative"
                 THEN p.hzStatus.k = "obj" /\ p.hzStatus.conservative
                 ELSE IF filters.inHZ = "optimistic"
                 THEN p.hzStatus.k = "obj" /\ p.hzStatus.optimistic
                 ELSE TRUE
      byESI(p) == filters.minESI = Unset
                  \/ (p.esi.k = "obj" /\ JsGte(p.esi.global, filters.minESI))
      r1 == SelectSeq(catalog, text)
      r2 == SelectSeq(r1, byType)
      r3 == SelectSeq(r2, byMinHabitability)
      r4 == SelectSeq(r3, byMaxDistance)
      r5 == SelectSeq(r4, byMinDistance)
      r6 == SelectSeq(r5, byMinTemp)
      r7 == SelectSeq(r6, byMaxTemp)
      r8 == SelectSeq(r7, byMinRadius)
      r9 == SelectSeq(r8, byMaxRadius)
      r10 == SelectSeq(r9, byStarType)
      r11 == SelectSeq(r10, byYear)
      r12 == SelectSeq(r11, byMethod)
      r13 == SelectSeq(r12, byHZ)
      r14 == SelectSeq(r13, byESI)
  IN CHOOSE out \in {[results |-> SortResults(filtered, filters.sortBy, filters.sortDir),
                        catalog |-> catalog] :
                        filtered \in {r14}} : TRUE

\* PLANET_CATALOG.find(p => p.name === name)
getPlanetByName(catalog, name) ==
  IF \E i \in 1..Len(catalog) : catalog[i].name = name
  THEN [found |-> TRUE,
        planet |-> catalog[CHOOSE i \in 1..Len(catalog) :
                             /\ catalog[i].name = name
                             /\ \A j \in 1..(i - 1) : catalog[j].name /= name]]
  ELSE [found |-> FALSE]

\* PLANET_CATALOG.filter(p => p.system === systemName)
getSystemPlanets(catalog, systemName) ==
  LET inSystem(p) == p.system = systemName
  IN SelectSeq(catalog, inSystem)

\* PLANET_CATALOG.reduce((a, b) => a.distance < b.distance ? a : b) and the
\* same on habitability, over the first n entries
ReduceNearest(catalog, n) ==
  LET acc[i \in 1..n] ==
        IF i = 1 THEN catalog[1]
        ELSE IF JsLt(Rel(acc[i - 1].distance), Rel(catalog[i].distance))
        THEN acc[i - 1] ELSE catalog[i]
  IN acc[n]
ReduceMostHabitable(catalog, n) ==
  LET acc[i \in 1..n] ==
        IF i = 1 THEN catalog[1]
        ELSE IF acc[i - 1].habitability > catalog[i].habitability
        THEN acc[i - 1] ELSE catalog[i]
  IN acc[n]

\* getCatalogStats(): reduce without an initial value throws a TypeError on
\* an empty array.  (The tallies by type, star type and method and the
\* average habitability are not carried.)
getCatalogStats(m) ==
  IF Len(m.catalog.v) = 0 THEN [threw |-> "TypeError"]
  ELSE [threw |-> "",
        total |-> Len(m.catalog.v),
        highHabitabilityCount |->
          Cardinality({i \in 1..Len(m.catalog.v) : m.catalog.v[i].habitability >= 70}),
        inHabitableZone |->
          Cardinality({i \in 1..Len(m.catalog.v) :
                         m.catalog.v[i].hzStatus.k = "obj" /\ m.catalog.v[i].hzStatus.optimistic}),
        highESICount |->
          Cardinality({i \in 1..Len(m.catalog.v) :
                         m.catalog.v[i].esi.k = "obj" /\ JsGte(m.catalog.v[i].esi.global, 700)}),
        nearestPlanet |-> ReduceNearest(m.catalog.v, Len(m.catalog.v)),
        mostHabitable |-> ReduceMostHabitable(m.catalog.v, Len(m.catalog.v)),
        dataSource |-> m.dataSource]

\* initializeNASACatalog from the point where loadNASAPlanets has settled
\* with ret; processed is the array processNASAPlanets builds of its
\* planets.  mod is the module state of database.js.
\* Result: the new module state, how the promise of initializeNASACatalog
\* settled, and whether a background refresh was scheduled.
InitAssign(mod, ret, cb, processed) ==
  LET builtin == [mod EXCEPT !.dataSource = "built-in"]
      \* the catch block: dataSource, then the 'ready' progress call
      caught(m) == IF CbThrows(cb, "ready")
                   THEN [mod |-> [m EXCEPT !.dataSource = "built-in"],
                         status |-> "rejected", schedule |-> FALSE]
                   ELSE [mod |-> [m EXCEPT !.dataSource = "built-in", !.catalogReady = TRUE],
                         status |-> "resolved", schedule |-> FALSE]
  IN IF ret.status = "rejected" THEN caught(mod)
     ELSE IF ret.planets.k = "list" /\ Len(ret.planets.v) > 0
     THEN LET loaded == [mod EXCEPT !.catalog = processed,
                                    !.dataSource = IF ret.fromCache THEN "cache" ELSE "nasa",
                                    !.dataFetchedAt = ret.fetchedAt,
                                    !.dataReport = ret.report]
              ready(m) == IF CbThrows(cb, "ready") THEN caught(m)
                          ELSE [mod |-> [m EXCEPT !.catalogReady = TRUE],
                                status |-> "resolved", schedule |-> ret.fromCache]
          IN CHOOSE out \in {ready(m) : m \in {loaded}} : TRUE
     ELSE IF CbThrows(cb, "ready") THEN caught(builtin)
          ELSE [mod |-> [builtin EXCEPT !.catalogReady = TRUE],
                status |-> "resolved", schedule |-> FALSE]

\* the same at clock t, processNASAPlanets included
InitFinish(mod, ret, cb, t) ==
  InitAssign(mod, ret, cb, ArrayOf(processNASAPlanets(ret.planets.v)))

\* onCatalogReady(fn) on module state m: fn is called at once when the
\* catalog is ready, else queued.  fn is the registration [id, throws];
\* invoked is the log of the callbacks called so far
onCatalogReady(m, invoked, fn) ==
  IF m.catalogReady
  THEN [mod |-> m, invoked |-> Append(invoked, fn.id)]
  ELSE [mod |-> [m EXCEPT !.catalogReadyCallbacks = Append(@, fn)], invoked |-> invoked]

\* notifyCatalogReady(): the flag, then forEach over the queue, then the
\* queue is replaced by an empty one.  A callback that throws ends the
\* forEach and the function: the exception leaves initializeNASACatalog
FirstThrower(queue) ==
  IF \E i \in 1..Len(queue) : queue[i].throws
  THEN CHOOSE i \in 1..Len(queue) :
         queue[i].throws /\ \A j \in 1..(i - 1) : ~queue[j].throws
  ELSE 0
notifyCatalogReady(m, invoked) ==
  LET queue == m.catalogReadyCallbacks
      stop == FirstThrower(queue)
      reached == IF stop = 0 THEN Len(queue) ELSE stop
  IN [mod |-> [m EXCEPT !.catalogReady = TRUE,
                        !.catalogReadyCallbacks = IF stop = 0 THEN <<>> ELSE @],
      invoked |-> invoked \o [i \in 1..reached |-> queue[i].id],
      threw |-> stop /= 0]

\* the completion callback initializeNASACatalog hands to backgroundRefresh:
\* its assignments, refreshed being the array processNASAPlanets built, and
\* the whole callback
RefreshAssign(mod, refreshed, report, fetchedAt) ==
  [mod EXCEPT !.catalog = refreshed,
              !.dataSource = "nasa",
              !.dataFetchedAt = fetchedAt,
              !.dataReport = ReportOf(report)]
RefreshComplete(mod, planets, report, fetchedAt) ==
  RefreshAssign(mod, ArrayOf(processNASAPlanets(planets)), report, fetchedAt)

\* backgroundRefresh up to its first suspension at clock t: nothing happens
\* when the cache is fresh, else one request goes out (r is its answer)
\* - variant that only trusts a cache younger than half the freshness window
BgFirstStepHalfWindow(store, t, b, r) ==
  IF isCacheFresh(store, t) /\ 2 * (t - getCacheMeta(store).v.fetchedAt) < CACHE_MAX_AGE_MS
  THEN [b EXCEPT !.pc = "done", !.status = "resolved"]
  ELSE [b EXCEPT !.pc = "fetch", !.remote = r, !.requests = @ + 1, !.status = "pending",
                 !.timer = [armed |-> TRUE, deadline |-> t + FETCH_TIMEOUT_MS]]

BgFirstStep(store, t, b, r) ==
  IF isCacheFresh(store, t)
  THEN [b EXCEPT !.pc = "done", !.status = "resolved"]
  ELSE [b EXCEPT !.pc = "fetch", !.remote = r, !.requests = @ + 1, !.status = "pending",
                 !.timer = [armed |-> TRUE, deadline |-> t + FETCH_TIMEOUT_MS]]

\* backgroundRefresh after response.json() settled at clock t with body:
\* map, validate, write, call onComplete; an exception on the way is caught
\* and logged.  Result: storage, module state, whether onComplete was called
\* - variant whose catch block hands an empty result to onComplete
RefreshBodyReportsFailure(store, m, t, body) ==
  IF body.k = "list"
  THEN LET completed(in) ==
             [store |-> in.store, called |-> TRUE,
              mod |-> RefreshComplete(m, in.planets, in.report, in.fetchedAt)]
       IN CHOOSE out \in {completed(in) : in \in {Ingest(store, t, body.v)}} : TRUE
  ELSE [store |-> store, called |-> TRUE,
        mod |-> RefreshComplete(m, <<>>, NoReport, t)]

RefreshBody(store, m, t, body) ==
  IF body.k = "list"
  THEN LET completed(in) ==
             [store |-> in.store, called |-> TRUE,
              mod |-> RefreshComplete(m, in.planets, in.report, in.fetchedAt)]
       IN CHOOSE out \in {completed(in) : in \in {Ingest(store, t, body.v)}} : TRUE
  ELSE [store |-> store, called |-> FALSE, mod |-> m]

\* ------------------------------------------------------------------------
\* Bounds and input sets

MINUTE_MS == 60000
DAY_MS == 24 * HOUR_MS
T0 == 8 * DAY_MS

\* the clock values at which something happens
Instants ==
  {T0 + o : o \in {0, REFRESH_DELAY_MS, FETCH_TIMEOUT_MS,
                    REFRESH_DELAY_MS + FETCH_TIMEOUT_MS}}

\* fetch times of the cache entries found at page load
InitialFetchTimes ==
  {T0 - 7 * DAY_MS - HOUR_MS, T0 - 7 * DAY_MS, T0 - 3 * DAY_MS,
   T0 - DAY_MS - MINUTE_MS, T0 - DAY_MS, T0 - DAY_MS + REFRESH_DELAY_MS,
   T0 - DAY_MS + MINUTE_MS}

\* a row of the archive; the columns not named here are null in the row
Raw(name, dist, rade, masse, per, smax, eqt, lum, ref, controv) ==
  [pl_name |-> name, sy_dist |-> dist, pl_rade |-> rade, pl_bmasse |-> masse,
   pl_orbper |-> per, pl_orbsmax |-> smax, pl_eqt |-> eqt, st_lum |-> lum,
   disc_refname |-> ref, pl_controv_flag |-> controv,
   hostname |-> "", st_spectype |-> "", st_teff |-> Null, disc_year |-> Null,
   discoverymethod |-> "", ra |-> Null, dec |-> Null, sy_vmag |-> Null]

\* answers of the archive: no records, one clean record, one record with a
\* negative radius and no mass or temperature around an over-luminous star,
\* two records whose reference strings exceed the size budget, and three
\* records of which any two exceed it
RawEmpty == <<>>
RawOne == << Raw("Test b", 10, 1, 1, 365, 1, 2554, 0, 120, 0) >>
RawBad == << Raw("Bad c", Null, -1, Null, Null, 1, Null, 400, 0, 1) >>
RawBig == << Raw("Big b", 10, 4, Null, 10, 4, Null, 4, 3000000, 0),
             Raw("Big c", 20, 9, Null, 20, Null, 2554, Null, 3000000, 0) >>
RawHuge == << Raw("Huge b", 10, 1, 1, 10, 1, 2554, 0, 2400000, 0),
              Raw("Huge c", 10, 1, 1, 20, 1, 2554, 0, 2400000, 0),
              Raw("Huge d", 10, 1, 1, 30, 1, 2554, 0, 2400000, 0) >>
RawLists == {RawEmpty, RawOne, RawBad, RawBig, RawHuge}

Bodies == {[k |-> "list", v |-> l] : l \in RawLists}
          \cup {[k |-> b, v |-> <<>>] : b \in {"syntax", "nonlist", "nullitem", "stall"}}
NoBody == [k |-> "none", v |-> <<>>]

\* how the archive answers one request: the fetch promise (ok, non-2xx,
\* network error, or no answer) and, after ok, the body
Remotes == {[resp |-> r, body |-> NoBody] : r \in {"http", "network", "hang"}}
           \cup {[resp |-> "ok", body |-> b] : b \in Bodies}

Callbacks == {NoCallback, [present |-> TRUE, throwsAt |-> {}]}
             \cup {[present |-> TRUE, throwsAt |-> {ph}] : ph \in Phases}

\* storage as earlier page loads (of this or another schema version) left it
CleanOf(raws) == validateAndClean(MapAll(raws))
StoredMeta(version, fetchedAt, raws) ==
  [k |-> "json",
   v |-> [version |-> version, fetchedAt |-> fetchedAt,
          recordCount |-> Len(CleanOf(raws).planets), report |-> CleanOf(raws).report,
          truncated |-> FALSE, cachedCount |-> Len(CleanOf(raws).planets)]]
StoredData(raws) == [k |-> "json", v |-> JsonList(CleanOf(raws).planets)]

InitialEntries ==
  {[data |-> AbsentData, meta |-> AbsentMeta]}
  \cup {[data |-> StoredData(RawOne), meta |-> StoredMeta(CACHE_VERSION, f, RawOne)] :
          f \in InitialFetchTimes}
  \cup {[data |-> StoredData(RawOne), meta |-> StoredMeta(v, f, RawOne)] :
          v \in {CACHE_VERSION - 1, CACHE_VERSION + 1},
          f \in {T0 - 3 * DAY_MS, T0 - DAY_MS + MINUTE_MS}}
  \cup {[data |-> StoredData(RawEmpty), meta |-> StoredMeta(CACHE_VERSION, f, RawEmpty)] :
          f \in {T0 - 3 * DAY_MS, T0 - DAY_MS + MINUTE_MS}}
  \cup {[data |-> d, meta |-> StoredMeta(CACHE_VERSION, f, RawOne)] :
          d \in {CorruptData, AbsentData}, f \in {T0 - 3 * DAY_MS, T0 - DAY_MS + MINUTE_MS}}
  \cup {[data |-> StoredData(RawOne), meta |-> m] : m \in {CorruptMeta, AbsentMeta}}

\* localStorage of the browser: readable or throwing on access, and which
\* setItem call (if any) fails
StorageModes == {[readable |-> TRUE, writeFail |-> w] : w \in {"none", "data", "meta"}}
                \cup {[readable |-> FALSE, writeFail |-> "data"]}

InitialStores ==
  {[data |-> e.data, meta |-> e.meta, readable |-> m.readable, writeFail |-> m.writeFail] :
      e \in InitialEntries, m \in StorageModes}

\* ------------------------------------------------------------------------
\* State

VARIABLES
  now,         \* Date.now()
  store,       \* localStorage: the two entries and how the storage behaves
  onProgress,  \* the progress callback the application passes
  remote,      \* how the archive answers the request of loadNASAPlanets
  pc,          \* initializeNASACatalog: not yet called ("idle"); waiting for
               \* the response ("fetch"), for the catch block after the abort
               \* ("aborted"), for the body ("body"); fetchNASAData settled and
               \* loadNASAPlanets to go on ("fetched"); loadNASAPlanets settled
               \* and initializeNASACatalog to go on ("returned"); inside
               \* processNASAPlanets, where it is followed record by record
               \* ("processing"); "done"
  fetched,     \* the promise of fetchNASAData
  ret,         \* the promise of loadNASAPlanets
  initStatus,  \* the promise of initializeNASACatalog
  timer,       \* the 30 s abort timer of the pending fetch
  requests,    \* remote requests issued by this loadNASAPlanets invocation
  mod,         \* database.js: catalog, dataSource, dataFetchedAt, dataReport, catalogReady,
               \* catalogReadyCallbacks (the registrations, numbered in order)
  bg,          \* the scheduled background refresh
  hist         \* storage and clock when loadNASAPlanets was called and when it settled,
               \* the error its remote request ended with ("" if none), and storage,
               \* module state and clock when backgroundRefresh was called

\* the mapper and the validator called on their own
VARIABLES
  rawData,     \* the rows handed to rawData.map(mapNASARecord)
  mapped,      \* its result, once computed
  validated,   \* the result of validateAndClean(mapped), once computed
  revalidated  \* the result of validateAndClean on the planets of validated

\* the readers of the catalog next to a load that replaces it
VARIABLES
  load,        \* the processNASAPlanets call in progress: the planets it was given
               \* (for a refresh with their report and fetch time), the array
               \* built so far, and the catalog it will replace
  seen         \* the last call of a reader: its arguments, the catalog it ran
               \* over, what it returned and the catalog after the call

\* enrichPlanet called on its own
VARIABLES
  enriching    \* the planet given, the planet now, the planet after the first
               \* call and the number of calls

VARIABLES
  tabs         \* per browser tab: how far its setCachedData call has come

pipelineVars == <<now, store, onProgress, remote, pc, fetched, ret, initStatus, timer, requests,
                  mod, bg, hist>>
validatorVars == <<rawData, mapped, validated, revalidated>>
catalogVars == <<load, seen>>
enrichVars == <<enriching>>

tabVars == <<tabs>>
vars == <<pipelineVars, validatorVars, catalogVars, enrichVars, tabVars>>

NoTimer == [armed |-> FALSE, deadline |-> 0]
NoRemote == [resp |-> "none", body |-> NoBody]
\* the background refresh: where it stands, when its 5 s timer is due, the
\* answer to its request, its abort timer, the requests it issued, whether
\* it called its completion callback and how its promise stands
NoBg == [pc |-> "none", due |-> 0, remote |-> NoRemote, timer |-> NoTimer,
         requests |-> 0, onComplete |-> FALSE, status |-> "none"]

\* module state of database.js right after the module was evaluated
FreshModule ==
  [catalog |-> buildCatalog, dataSource |-> "built-in", dataFetchedAt |-> Null,
   dataReport |-> NullReport, catalogReady |-> FALSE, catalogReadyCallbacks |-> <<>>]

NoHist == [callStore |-> [data |-> AbsentData, meta |-> AbsentMeta,
                          readable |-> TRUE, writeFail |-> "none"],
           callTime |-> 0, retStore |-> [data |-> AbsentData, meta |-> AbsentMeta,
                                         readable |-> TRUE, writeFail |-> "none"],
           retTime |-> 0, fetchError |-> "",
           bgStore |-> [data |-> AbsentData, meta |-> AbsentMeta,
                        readable |-> TRUE, writeFail |-> "none"],
           bgMod |-> FreshModule, bgTime |-> 0,
           registered |-> 0, invoked |-> <<>>,
           loads |-> 0, goodWrite |-> Null,
           writes |-> 0, dataBy |-> 0, metaBy |-> 0]

NotMapped == [done |-> FALSE, v |-> <<>>]
NotValidated == [done |-> FALSE, planets |-> <<>>, report |-> NoReport]
\* no load in progress, no reader called yet
NoLoad == [kind |-> "none", phase |-> "idle", planets |-> <<>>, report |-> NoReport,
           fetchedAt |-> Null, processed |-> <<>>, old |-> buildCatalog]
NoSeen == [op |-> "none"]
ReadersIdle == load = NoLoad /\ seen = NoSeen
NotEnriching == [applied |-> 0]
EnrichIdle == enriching = NotEnriching
\* no tab is writing the cache
NoWrite == [pc |-> "idle", call |-> 0, data |-> <<>>, meta |-> NoMeta, fail |-> "none"]
TabsIdle == tabs = <<NoWrite, NoWrite>>

ValidatorIdle ==
  /\ rawData = <<>> /\ mapped = NotMapped
  /\ validated = NotValidated /\ revalidated = NotValidated

Init ==
  /\ ValidatorIdle
  /\ ReadersIdle
  /\ EnrichIdle
  /\ TabsIdle
  /\ now = T0
  /\ store \in InitialStores
  /\ onProgress \in Callbacks
  /\ remote \in Remotes
  /\ pc = "idle"
  /\ fetched = NotFetched
  /\ ret = PendingRet
  /\ initStatus = "pending"
  /\ timer = NoTimer
  /\ requests = 0
  /\ mod = FreshModule
  /\ bg = NoBg
  /\ hist = NoHist

\* ------------------------------------------------------------------------
\* Actions.  One action is one turn of the event loop: a call from the
\* application, a timer callback, or the continuation of an async function
\* after the promise it awaits has settled.

Later(t) == t >= now

\* a list answer whose cleaned records loadNASAPlanets or backgroundRefresh
\* writes to the cache: the write is reached and both setItem calls succeed
WritesRecords(st, cb, f, body) ==
  /\ f.status = "resolved" /\ body.k = "list"
  /\ ~CbThrows(cb, "mapping") /\ ~CbThrows(cb, "validating")
  /\ st.writeFail = "none"
  /\ Len(CleanOf(body.v).planets) > 0

\* initializeNASACatalog(onProgress) called at clock t, up to the point
\* where it hands its pending promise to the caller: loadNASAPlanets runs
\* step 1 and, without a fresh cache, fetchNASAData runs up to `await fetch`
CallLoad(st, t, cb) ==
  IF FreshHit(st, t)
  THEN [pc |-> "returned", ret |-> FreshResult(st, cb), fetched |-> NotFetched,
        timer |-> NoTimer, requests |-> 0]
  ELSE IF CbThrows(cb, "fetching")
  THEN [pc |-> "fetched", ret |-> PendingRet, fetched |-> FetchRejected(ErrCallback),
        timer |-> NoTimer, requests |-> 0]
  ELSE [pc |-> "fetch", ret |-> PendingRet, fetched |-> NotFetched,
        timer |-> [armed |-> TRUE, deadline |-> t + FETCH_TIMEOUT_MS], requests |-> 1]

\* the bookkeeping of a call at clock t that left the pipeline as out
Called(h, st, t, out) ==
  IF out.pc = "returned"
  THEN [h EXCEPT !.callStore = st, !.callTime = t, !.retStore = st, !.retTime = t]
  ELSE [h EXCEPT !.callStore = st, !.callTime = t]

\* app start: the call of initializeNASACatalog(onProgress)
\* - variant that arms the 5 s refresh timer before awaiting loadNASAPlanets
InitializeNASACatalogSchedulesFirst ==
  /\ pc = "idle"
  /\ \E out \in {CallLoad(store, now, onProgress)} :
       /\ pc' = out.pc
       /\ ret' = out.ret
       /\ fetched' = out.fetched
       /\ timer' = out.timer
       /\ requests' = out.requests
       /\ hist' = Called(hist, store, now, out)
       /\ bg' = IF out.pc = "fetch"
                THEN [NoBg EXCEPT !.pc = "scheduled", !.due = now + REFRESH_DELAY_MS]
                ELSE bg
  /\ UNCHANGED <<now, store, onProgress, remote, initStatus, mod>>
  /\ UNCHANGED <<validatorVars, catalogVars, enrichVars, tabVars>>

InitializeNASACatalog ==
  /\ pc = "idle"
  /\ \E out \in {CallLoad(store, now, onProgress)} :
       /\ pc' = out.pc
       /\ ret' = out.ret
       /\ fetched' = out.fetched
       /\ timer' = out.timer
       /\ requests' = out.requests
       /\ hist' = Called(hist, store, now, out)
       /\ bg' = bg
  /\ UNCHANGED <<now, store, onProgress, remote, initStatus, mod>>
  /\ UNCHANGED <<validatorVars, catalogVars, enrichVars, tabVars>>

\* the fetch promise settles before the abort timer is due and fetchNASAData
\* goes on: an ok answer clears the timer and waits for response.json(); a
\* non-2xx answer or a network error ends in the catch block, which clears
\* the timer and throws the error again
FetchSettles(t) ==
  /\ pc = "fetch"
  /\ Later(t)
  /\ t < timer.deadline
  /\ remote.resp \in {"ok", "http", "network"}
  /\ now' = t
  /\ timer' = NoTimer
  /\ IF remote.resp = "ok"
     THEN /\ pc' = "body"
          /\ UNCHANGED <<fetched, hist>>
     ELSE LET err == IF remote.resp = "http" THEN ErrHttp ELSE ErrNetwork
          IN /\ pc' = "fetched"
             /\ fetched' = FetchRejected(err)
             /\ hist' = [hist EXCEPT !.fetchError = err]
  /\ UNCHANGED <<store, onProgress, remote, ret, initStatus, requests, mod, bg>>
  /\ UNCHANGED <<validatorVars, catalogVars, enrichVars, tabVars>>

\* the archive has not answered when the abort timer is due: the timer
\* callback aborts the request, which rejects the fetch promise
FetchTimeout(t) ==
  /\ pc = "fetch"
  /\ timer.armed
  /\ remote.resp = "hang"
  /\ Later(t)
  /\ t >= timer.deadline
  /\ now' = t
  /\ timer' = NoTimer
  /\ pc' = "aborted"
  /\ UNCHANGED <<store, onProgress, remote, fetched, ret, initStatus, requests, mod, bg,
                 hist>>
  /\ UNCHANGED <<validatorVars, catalogVars, enrichVars, tabVars>>

\* the catch block of fetchNASAData after the abort: clearTimeout, and the
\* AbortError is thrown as the timeout error
FetchAborted ==
  /\ pc = "aborted"
  /\ pc' = "fetched"
  /\ fetched' = FetchRejected(ErrTimeout)
  /\ hist' = [hist EXCEPT !.fetchError = ErrTimeout]
  /\ UNCHANGED <<now, store, onProgress, remote, ret, initStatus, timer, requests, mod, bg>>
  /\ UNCHANGED <<validatorVars, catalogVars, enrichVars, tabVars>>

\* response.json() settles and fetchNASAData goes on to its end
BodySettles(t) ==
  /\ pc = "body"
  /\ Later(t)
  /\ remote.body.k /= "stall"
  /\ now' = t
  /\ pc' = "fetched"
  /\ fetched' = FetchBody(onProgress, remote.body)
  /\ hist' = [hist EXCEPT !.fetchError = BodyError(remote.body)]
  /\ UNCHANGED <<store, onProgress, remote, ret, initStatus, timer, requests, mod, bg>>
  /\ UNCHANGED <<validatorVars, catalogVars, enrichVars, tabVars>>

\* loadNASAPlanets goes on after `await fetchNASAData(onProgress)` and runs
\* to its end: the rest of step 2, or the catch block
LoadContinues ==
  /\ pc = "fetched"
  /\ \E out \in {LoadAfterFetch(store, now, onProgress, fetched, remote.body)} :
       /\ ret' = out.ret
       /\ store' = out.store
       /\ hist' = [hist EXCEPT
                     !.retStore = out.store, !.retTime = now,
                     !.goodWrite = IF WritesRecords(store, onProgress, fetched, remote.body)
                                   THEN now ELSE @]
  /\ pc' = "returned"
  /\ UNCHANGED <<now, onProgress, remote, fetched, initStatus, timer, requests, mod, bg>>
  /\ UNCHANGED <<validatorVars, catalogVars, enrichVars, tabVars>>

\* initializeNASACatalog from the assignments after processNASAPlanets (or
\* from the branch taken without planets) to its end; processed is the
\* array processNASAPlanets built
InitEnds(processed) ==
  /\ \E fin \in {InitAssign(mod, ret, onProgress, processed)} :
     \E rdy \in {IF fin.status = "resolved" THEN notifyCatalogReady(fin.mod, hist.invoked)
                  ELSE [mod |-> fin.mod, invoked |-> hist.invoked, threw |-> FALSE]} :
       /\ mod' = rdy.mod
       /\ initStatus' = IF rdy.threw THEN "rejected" ELSE fin.status
       /\ bg' = IF fin.schedule
                THEN [NoBg EXCEPT !.pc = "scheduled", !.due = now + REFRESH_DELAY_MS]
                ELSE NoBg
       /\ hist' = [hist EXCEPT !.invoked = rdy.invoked]
  /\ pc' = "done"
  /\ UNCHANGED <<now, store, onProgress, remote, fetched, ret, timer, requests>>
  /\ UNCHANGED <<validatorVars, enrichVars, tabVars>>

\* initializeNASACatalog goes on after `await loadNASAPlanets(onProgress)`
\* and runs to its end
InitContinues ==
  /\ pc = "returned"
  /\ InitEnds(ArrayOf(processNASAPlanets(ret.planets.v)))
  /\ UNCHANGED catalogVars

\* the 5 s timer of initializeNASACatalog fires: backgroundRefresh up to its
\* first suspension; r is how the archive will answer its request
BgStart(t, r) ==
  /\ bg.pc = "scheduled"
  /\ Later(t)
  /\ t >= bg.due
  /\ now' = t
  /\ bg' = BgFirstStep(store, t, bg, r)
  /\ hist' = [hist EXCEPT !.bgStore = store, !.bgMod = mod, !.bgTime = t]
  /\ UNCHANGED <<store, onProgress, remote, pc, fetched, ret, initStatus, timer, requests,
                 mod>>
  /\ UNCHANGED <<validatorVars, catalogVars, enrichVars, tabVars>>

BgFetchSettles(t) ==
  /\ bg.pc = "fetch"
  /\ Later(t)
  /\ t < bg.timer.deadline
  /\ bg.remote.resp \in {"ok", "http", "network"}
  /\ now' = t
  /\ bg' = IF bg.remote.resp = "ok"
           THEN [bg EXCEPT !.pc = "body", !.timer = NoTimer]
           ELSE [bg EXCEPT !.pc = "done", !.timer = NoTimer, !.status = "resolved"]
  /\ UNCHANGED <<store, onProgress, remote, pc, fetched, ret, initStatus, timer, requests,
                 mod, hist>>
  /\ UNCHANGED <<validatorVars, catalogVars, enrichVars, tabVars>>

BgTimeout(t) ==
  /\ bg.pc = "fetch"
  /\ bg.timer.armed
  /\ bg.remote.resp = "hang"
  /\ Later(t)
  /\ t >= bg.timer.deadline
  /\ now' = t
  /\ bg' = [bg EXCEPT !.pc = "done", !.timer = NoTimer, !.status = "resolved"]
  /\ UNCHANGED <<store, onProgress, remote, pc, fetched, ret, initStatus, timer, requests,
                 mod, hist>>
  /\ UNCHANGED <<validatorVars, catalogVars, enrichVars, tabVars>>

\* response.json() of the refresh settles: map, validate, write the cache and
\* call the completion callback; any error is swallowed
BgBodySettles(t) ==
  /\ bg.pc = "body"
  /\ Later(t)
  /\ bg.remote.body.k /= "stall"
  /\ now' = t
  /\ \E out \in {RefreshBody(store, mod, t, bg.remote.body)} :
        /\ store' = out.store
        /\ mod' = out.mod
        /\ bg' = [bg EXCEPT !.pc = "done", !.status = "resolved", !.onComplete = out.called]
  /\ hist' = [hist EXCEPT
                !.goodWrite = IF WritesRecords(store, NoCallback, FetchResolved,
                                               bg.remote.body)
                              THEN t ELSE @]
  /\ UNCHANGED <<onProgress, remote, pc, fetched, ret, initStatus, timer, requests>>
  /\ UNCHANGED <<validatorVars, catalogVars, enrichVars, tabVars>>

Next ==
  \/ InitializeNASACatalog
  \/ \E t \in Instants : FetchSettles(t)
  \/ \E t \in Instants : FetchTimeout(t)
  \/ FetchAborted
  \/ \E t \in Instants : BodySettles(t)
  \/ LoadContinues
  \/ InitContinues
  \/ \E t \in Instants, r \in Remotes : BgStart(t, r)
  \/ \E t \in Instants : BgFetchSettles(t)
  \/ \E t \in Instants : BgTimeout(t)
  \/ \E t \in Instants : BgBodySettles(t)

Spec == Init /\ [][Next]_vars

TypeOK ==
  /\ now \in Instants
  /\ pc \in {"idle", "fetch", "aborted", "body", "fetched", "returned", "done"}
  /\ fetched.status \in {"pending", "resolved", "rejected"}
  /\ ret.status \in {"pending", "resolved", "rejected"}
  /\ initStatus \in {"pending", "resolved", "rejected"}
  /\ requests \in 0..1

\* ------------------------------------------------------------------------
\* The mapper and the validator on their own: rawData.map(mapNASARecord)
\* followed by validateAndClean, on every list of at most MaxRows rows

MaxRows == 3

\* rows: a clean one; one of the same name with most columns missing; one
\* with negative radius and distance around an over-luminous star; two
\* without a name (zero radius and negative mass; nothing but a star and an
\* orbit); two that share a name every JavaScript object inherits
RowA == Raw("K b", 10, 1, 1, 365, 1, 2554, 0, 120, 0)
RowB == Raw("K b", Null, 4, Null, Null, Null, Null, Null, 0, 1)
RowC == Raw("K c", -3, -1, Null, 10, 1, Null, 400, 0, 0)
RowD == Raw("", 20, 0, -5, 5, 0, 15, 4, 0, 0)
RowE == Raw("", Null, Null, Null, Null, 4, Null, 4, 0, 0)
RowF == Raw("constructor", 5, 9, Null, 3, 1, 30000, 0, 0, 0)
RowG == Raw("constructor", 7, 1, 1, 3, 1, Null, Null, 0, 0)
ValidatorRows == {RowA, RowB, RowC, RowD, RowE, RowF, RowG}
ValidatorInputs == UNION {[1..n -> ValidatorRows] : n \in 0..MaxRows}

\* the pipeline before initializeNASACatalog is called, storage empty
PipelineIdle ==
  /\ now = T0
  /\ store = [data |-> AbsentData, meta |-> AbsentMeta, readable |-> TRUE,
              writeFail |-> "none"]
  /\ onProgress = NoCallback
  /\ remote = NoRemote
  /\ pc = "idle"
  /\ fetched = NotFetched
  /\ ret = PendingRet
  /\ initStatus = "pending"
  /\ timer = NoTimer
  /\ requests = 0
  /\ mod = FreshModule
  /\ bg = NoBg
  /\ hist = NoHist

InitValidator ==
  /\ PipelineIdle
  /\ ReadersIdle
  /\ EnrichIdle
  /\ TabsIdle
  /\ rawData \in ValidatorInputs
  /\ mapped = NotMapped
  /\ validated = NotValidated
  /\ revalidated = NotValidated

\* const mapped = rawData.map(mapNASARecord)
MapRecords ==
  /\ ~mapped.done
  /\ mapped' = [done |-> TRUE, v |-> MapAll(rawData)]
  /\ UNCHANGED <<rawData, validated, revalidated>>
  /\ UNCHANGED <<pipelineVars, catalogVars, enrichVars, tabVars>>

\* const { planets, report } = validateAndClean(mapped)
ValidateAndClean ==
  /\ mapped.done
  /\ ~validated.done
  /\ \E vc \in {validateAndClean(mapped.v)} :
       validated' = [done |-> TRUE, planets |-> vc.planets, report |-> vc.report]
  /\ mapped' = [mapped EXCEPT !.v = MutatedInput(mapped.v)]
  /\ UNCHANGED <<rawData, revalidated>>
  /\ UNCHANGED <<pipelineVars, catalogVars, enrichVars, tabVars>>

\* validateAndClean called again on the list the first call returned; the
\* objects of that list are the kept objects of mapped
Revalidate ==
  /\ validated.done
  /\ ~revalidated.done
  /\ \E vc \in {validateAndClean(validated.planets)} :
       revalidated' = [done |-> TRUE, planets |-> vc.planets, report |-> vc.report]
  /\ \E after \in {MutatedInput(validated.planets)} :
       /\ validated' = [validated EXCEPT !.planets = after]
       /\ mapped' = [mapped EXCEPT !.v = SharedWith(mapped.v, after)]
  /\ UNCHANGED rawData
  /\ UNCHANGED <<pipelineVars, catalogVars, enrichVars, tabVars>>

NextValidator ==
  \/ MapRecords
  \/ ValidateAndClean
  \/ Revalidate

SpecValidator == InitValidator /\ [][NextValidator]_vars

\* ------------------------------------------------------------------------
\* Rows of the archive with host, star, discovery and sky columns

\* a super-Earth in the habitable zone of a Sun-like star in Cygnus; a
\* temperate planet of a red dwarf without host name or star luminosity;
\* an imaged giant far from a star hotter than the habitable-zone model
\* covers, its mass missing; a row with no mass whose radius is a square
Kepler22b ==
  [Raw("Kepler-22 b", 190, 2, 9, 290, 1, 2620, 0, 0, 0) EXCEPT
     !.hostname = "Kepler-22", !.st_spectype = "G5V", !.st_teff = 55180,
     !.disc_year = 2011, !.discoverymethod = "Transit", !.ra = 300, !.dec = 48,
     !.sy_vmag = 12]
Trappist1e ==
  [Raw("TRAPPIST-1 e", 12, 1, 1, 6, Null, 2510, Null, 0, 0) EXCEPT
     !.st_spectype = "M8V", !.st_teff = 25660, !.disc_year = 2017,
     !.discoverymethod = "Transit", !.ra = 345, !.dec = -5, !.sy_vmag = 19]
HR8799b ==
  [Raw("HR 8799 b", 41, 13, Null, Null, 68, 3000, 1, 0, 0) EXCEPT
     !.hostname = "HR 8799", !.st_spectype = "A5V", !.st_teff = 74000,
     !.disc_year = 2008, !.discoverymethod = "Imaging", !.ra = 345, !.dec = 21,
     !.sy_vmag = 6]
NoMass ==
  [Raw("Tau b", 5, 4, Null, 3, 1, 13900, 0, 0, 0) EXCEPT
     !.hostname = "Tau", !.st_spectype = "K2V", !.st_teff = 50000, !.ra = 60, !.dec = 15]

\* a planet the archive lists with a negative mass
NegativeMass == [Kepler22b EXCEPT !.pl_name = "Kepler-22 c", !.pl_bmasse = -1]

\* ------------------------------------------------------------------------
\* enrichPlanet on its own: called up to MaxEnrich times on one planet

MaxEnrich == 3

\* planets as processNASAPlanets builds them from validated records, from
\* records read back from the cache, and from a mapped record that was
\* never validated
EnrichRows == <<Kepler22b, Trappist1e, HR8799b, NoMass, NegativeMass>> \o RawBad \o RawBig
EnrichBases ==
  {PlanetObject(CleanOf(EnrichRows).planets[i], i - 1) :
     i \in 1..Len(CleanOf(EnrichRows).planets)}
  \cup {PlanetObject(JsonRecord(CleanOf(EnrichRows).planets[i]), i - 1) :
          i \in 1..Len(CleanOf(EnrichRows).planets)}
  \cup {PlanetObject(mapNASARecord(NoMass), 0)}
\* the same planets with other positions and discovery methods
EnrichSkies == {[ra |-> Null, dec |-> Null], [ra |-> 300, dec |-> Null],
               [ra |-> 195, dec |-> -60]}
EnrichMethods == {"", "Pulsation Timing Variations", "Gravity", "constructor"}
EnrichInputs ==
  EnrichBases
  \cup {[b EXCEPT !.ra = s.ra, !.dec = s.dec] : b \in EnrichBases, s \in EnrichSkies}
  \cup {[b EXCEPT !.discoveryMethod = d] : b \in EnrichBases, d \in EnrichMethods}
  \cup {[b EXCEPT !.vMag = Null, !.semiMajorAxis = 3] : b \in EnrichBases}

InitEnrich ==
  /\ PipelineIdle
  /\ ValidatorIdle
  /\ ReadersIdle
  /\ TabsIdle
  /\ \E p \in EnrichInputs :
       enriching = [applied |-> 0, given |-> p, planet |-> p, once |-> p]

\* enrichPlanet(planet), on the object the previous call returned
EnrichPlanet ==
  /\ enriching.applied < MaxEnrich
  /\ enriching' = [enriching EXCEPT
                     !.planet = enrichPlanet(@),
                     !.once = IF enriching.applied = 0
                              THEN enrichPlanet(enriching.planet) ELSE @,
                     !.applied = @ + 1]
  /\ UNCHANGED <<pipelineVars, validatorVars, catalogVars, tabVars>>

NextEnrich == EnrichPlanet

SpecEnrich == InitEnrich /\ [][NextEnrich]_vars

\* ------------------------------------------------------------------------
\* The readers next to the loads that replace the catalog: the pipeline
\* from the call of initializeNASACatalog to the end of the background
\* refresh, with processNASAPlanets taken record by record, so that a
\* reader is placed between any two steps; in the browser the block from
\* the call of processNASAPlanets to the end of the turn runs without
\* interruption, which is one of the schedules here.

\* what the archive delivers: three planets; a record with a negative
\* radius around an over-luminous star and one planet; a later answer with
\* four planets; no planets
LoadFirst == <<Kepler22b, Trappist1e, HR8799b>>
LoadSecond == RawBad \o <<Trappist1e>>
LoadLater == <<HR8799b, [Kepler22b EXCEPT !.sy_dist = 195], NoMass, Trappist1e>>

\* storage at page load: empty, or the records of LoadFirst written a day
\* less a minute ago (fresh) or three days ago (stale, usable)
CatalogStores ==
  {[data |-> AbsentData, meta |-> AbsentMeta, readable |-> TRUE, writeFail |-> "none"]}
  \cup {[data |-> StoredData(LoadFirst), meta |-> StoredMeta(CACHE_VERSION, f, LoadFirst),
         readable |-> TRUE, writeFail |-> "none"] :
          f \in {T0 - DAY_MS + MINUTE_MS, T0 - 3 * DAY_MS}}
\* the answers to the request of loadNASAPlanets and to the request of the
\* refresh
CatalogRemotes ==
  {[resp |-> "http", body |-> NoBody]}
  \cup {[resp |-> "ok", body |-> [k |-> "list", v |-> l]] : l \in {LoadFirst, LoadSecond}}
CatalogRefreshRemotes ==
  {[resp |-> "http", body |-> NoBody]}
  \cup {[resp |-> "ok", body |-> [k |-> "list", v |-> l]] :
          l \in {LoadLater, LoadFirst, RawEmpty}}
\* no progress callback, or one that throws when told that the catalog is
\* ready
CatalogCallbacks == {NoCallback, [present |-> TRUE, throwsAt |-> {"ready"}]}

Queries == {"trappist", "KEPLER", " Transit ", "cyg", "world"}
FilterSets ==
  {   [NoFilters EXCEPT !.minHabitability = 50],
   [NoFilters EXCEPT !.type = "Water World"],
   [NoFilters EXCEPT !.minDistance = 1000000, !.maxDistance = 50000000],
   [NoFilters EXCEPT !.minTemp = 200, !.maxTemp = 310],
   [NoFilters EXCEPT !.minRadius = 1, !.maxRadius = 2],
   [NoFilters EXCEPT !.starType = "M"],
   [NoFilters EXCEPT !.discoveredAfter = 2010],
   [NoFilters EXCEPT !.discoveryMethod = "Transit"],
   [NoFilters EXCEPT !.inHZ = "conservative"],
   [NoFilters EXCEPT !.inHZ = "optimistic", !.minESI = 800],
   [NoFilters EXCEPT !.minESI = 0],
   [NoFilters EXCEPT !.minHabitability = 70, !.starType = "G", !.maxRadius = 2,
                     !.discoveredAfter = 0]}
\* the orders the catalog view asks for, and two more
SortSets ==
  {[NoFilters EXCEPT !.sortBy = "distance", !.sortDir = "asc"],
   [NoFilters EXCEPT !.sortBy = "name", !.sortDir = "desc"],
   [NoFilters EXCEPT !.sortBy = "esi", !.sortDir = "desc"],
   [NoFilters EXCEPT !.sortBy = "habitability", !.sortDir = "desc"],
   [NoFilters EXCEPT !.sortBy = "eqTemp", !.sortDir = "desc"],
   [NoFilters EXCEPT !.sortBy = "discovered", !.sortDir = "desc"],
   [NoFilters EXCEPT !.sortBy = "mass", !.sortDir = "desc", !.discoveredAfter = 2000]}
\* the calls of searchPlanets: every filter set and every order without a
\* query, every query without filters, two queries with filters, and a
\* blank query
Searches ==
  {[query |-> "", filters |-> f] : f \in FilterSets \cup SortSets \cup {NoFilters}}
  \cup {[query |-> q, filters |-> NoFilters] : q \in Queries}
  \cup {[query |-> "trappist", filters |-> [NoFilters EXCEPT !.minHabitability = 50]],
        [query |-> "KEPLER", filters |-> [NoFilters EXCEPT !.inHZ = "conservative",
                                                          !.minESI = 800]],
        [query |-> "  ", filters |-> [NoFilters EXCEPT !.starType = "M"]]}
PlanetNames == {"Kepler-22 b", "kepler-22 b", "TRAPPIST-1b", "Bad c"}
SystemNames == {"TRAPPIST-1", "Kepler-22", "Nowhere"}

InitCatalog ==
  /\ ValidatorIdle
  /\ ReadersIdle
  /\ EnrichIdle
  /\ TabsIdle
  /\ now = T0
  /\ store \in CatalogStores
  /\ onProgress \in CatalogCallbacks
  /\ remote \in CatalogRemotes
  /\ pc = "idle"
  /\ fetched = NotFetched
  /\ ret = PendingRet
  /\ initStatus = "pending"
  /\ timer = NoTimer
  /\ requests = 0
  /\ mod = FreshModule
  /\ bg = NoBg
  /\ hist = NoHist

\* result.planets && result.planets.length > 0
HasPlanets(result) ==
  result.status = "resolved" /\ result.planets.k = "list" /\ Len(result.planets.v) > 0

\* initializeNASACatalog goes on after `await loadNASAPlanets(onProgress)`
\* with a non-empty list (from the archive or from the cache):
\* processNASAPlanets is entered
StartInitialLoad ==
  /\ pc = "returned"
  /\ HasPlanets(ret)
  /\ pc' = "processing"
  /\ load' = [kind |-> "initial", phase |-> "building", planets |-> ret.planets.v,
              report |-> NoReport, fetchedAt |-> Null,
              processed |-> <<>>, old |-> mod.catalog]
  /\ seen' = NoSeen
  /\ UNCHANGED <<now, store, onProgress, remote, fetched, ret, initStatus, timer, requests,
                 mod, bg, hist>>
  /\ UNCHANGED <<validatorVars, enrichVars, tabVars>>

\* the same without planets, or with loadNASAPlanets rejected: the else
\* branch or the catch block, and the function runs to its end
InitWithoutPlanets ==
  /\ ~HasPlanets(ret)
  /\ InitContinues

\* response.json() of the refresh settles with a list: map, validate, write
\* the cache and call the completion callback, which enters
\* processNASAPlanets
StartRefresh(t) ==
  /\ bg.pc = "body"
  /\ Later(t)
  /\ bg.remote.body.k = "list"
  /\ now' = t
  /\ \E in \in {Ingest(store, t, bg.remote.body.v)} :
       /\ store' = in.store
       /\ load' = [kind |-> "refresh", phase |-> "building", planets |-> in.planets,
                   report |-> in.report, fetchedAt |-> in.fetchedAt,
                   processed |-> <<>>, old |-> mod.catalog]
  /\ bg' = [bg EXCEPT !.pc = "processing"]
  /\ hist' = [hist EXCEPT
                !.goodWrite = IF WritesRecords(store, NoCallback, FetchResolved,
                                               bg.remote.body)
                              THEN t ELSE @]
  /\ seen' = NoSeen
  /\ UNCHANGED <<onProgress, remote, pc, fetched, ret, initStatus, timer, requests, mod>>
  /\ UNCHANGED <<validatorVars, enrichVars, tabVars>>

\* variant of the step of the map that also stores the planet at its
\* index of PLANET_CATALOG
ProcessStepInPlace(ld, catalog) ==
  LET i == Len(ld.processed) + 1
      planet == CatalogEntry(ld.planets[i], i - 1)
  IN [processed |-> Append(ld.processed, planet),
      catalog |-> IF catalog.k = "built-in"
                  THEN [k |-> "built-in", length |-> catalog.length,
                        stored |-> Append(ld.processed, planet)]
                  ELSE IF i <= Len(catalog.v) THEN [catalog EXCEPT !.v[i] = planet]
                  ELSE [catalog EXCEPT !.v = Append(@, planet)]]

\* one step of nasaPlanets.map(...): the next planet is built, enriched and
\* appended to the array under construction; PLANET_CATALOG is not touched
ProcessStep(ld, catalog) ==
  LET i == Len(ld.processed) + 1
      planet == CatalogEntry(ld.planets[i], i - 1)
  IN [processed |-> Append(ld.processed, planet), catalog |-> catalog]

ProcessRecord ==
  /\ load.phase = "building"
  /\ Len(load.processed) < Len(load.planets)
  /\ \E out \in {ProcessStep(load, mod.catalog)} :
        /\ load' = [load EXCEPT !.processed = out.processed]
        /\ mod' = [mod EXCEPT !.catalog = out.catalog]
  /\ seen' = NoSeen
  /\ UNCHANGED <<now, store, onProgress, remote, pc, fetched, ret, initStatus, timer,
                 requests, bg, hist>>
  /\ UNCHANGED <<validatorVars, enrichVars, tabVars>>

\* the map is through: PLANET_CATALOG = processed and what follows in
\* initializeNASACatalog up to its return (the assignments, the 'ready'
\* progress call, the refresh timer, notifyCatalogReady), or
\* PLANET_CATALOG = refreshed and what follows in the completion callback
\* and in backgroundRefresh
AssignCatalog ==
  /\ load.phase = "building"
  /\ Len(load.processed) = Len(load.planets)
  /\ IF load.kind = "initial"
     THEN /\ pc = "processing"
          /\ InitEnds(ArrayOf(load.processed))
     ELSE /\ bg.pc = "processing"
          /\ mod' = RefreshAssign(mod, ArrayOf(load.processed), load.report, load.fetchedAt)
          /\ bg' = [bg EXCEPT !.pc = "done", !.status = "resolved", !.onComplete = TRUE]
          /\ UNCHANGED <<now, store, onProgress, remote, pc, fetched, ret, initStatus,
                         timer, requests, hist>>
          /\ UNCHANGED <<validatorVars, enrichVars, tabVars>>
  /\ load' = [load EXCEPT !.phase = "assigned"]
  /\ seen' = NoSeen

\* the rest of the pipeline, which the readers leave alone
pipelineRest == <<now, store, onProgress, remote, pc, fetched, ret, initStatus, timer, requests,
                  bg, hist>>

\* a reader called by the page on PLANET_CATALOG as it stands
SearchPlanets ==
  /\ \E s \in Searches :
       IF mod.catalog.k = "built-in"
       THEN /\ seen' = [op |-> "search", query |-> s.query, filters |-> s.filters,
                        catalog |-> mod.catalog, result |-> OfBuiltIn,
                        after |-> mod.catalog]
            /\ mod' = mod
       ELSE \E out \in {searchPlanets(mod.catalog.v, s.query, s.filters)} :
            /\ seen' = [op |-> "search", query |-> s.query, filters |-> s.filters,
                        catalog |-> mod.catalog, result |-> out.results,
                        after |-> ArrayOf(out.catalog)]
            /\ mod' = [mod EXCEPT !.catalog = ArrayOf(out.catalog)]
  /\ UNCHANGED <<load, pipelineRest, validatorVars, enrichVars, tabVars>>

GetPlanetByName ==
  /\ \E name \in PlanetNames :
       seen' = [op |-> "byName", name |-> name, catalog |-> mod.catalog,
                result |-> IF mod.catalog.k = "built-in" THEN OfBuiltIn
                           ELSE getPlanetByName(mod.catalog.v, name),
                after |-> mod.catalog]
  /\ UNCHANGED <<load, mod, pipelineRest, validatorVars, enrichVars, tabVars>>

GetSystemPlanets ==
  /\ \E systemName \in SystemNames :
       seen' = [op |-> "system", name |-> systemName, catalog |-> mod.catalog,
                result |-> IF mod.catalog.k = "built-in" THEN OfBuiltIn
                           ELSE getSystemPlanets(mod.catalog.v, systemName),
                after |-> mod.catalog]
  /\ UNCHANGED <<load, mod, pipelineRest, validatorVars, enrichVars, tabVars>>

GetCatalogStats ==
  /\ seen' = [op |-> "stats", catalog |-> mod.catalog,
              result |-> IF mod.catalog.k = "built-in" THEN OfBuiltIn
                         ELSE getCatalogStats(mod),
              after |-> mod.catalog]
  /\ UNCHANGED <<load, mod, pipelineRest, validatorVars, enrichVars, tabVars>>

\* the answers of the archive arrive within the millisecond of the
\* request; the refresh timer fires when it is due
NextCatalog ==
  \/ InitializeNASACatalog
  \/ \E t \in {now} : FetchSettles(t)
  \/ \E t \in {now} : BodySettles(t)
  \/ LoadContinues
  \/ StartInitialLoad
  \/ InitWithoutPlanets
  \/ ProcessRecord
  \/ AssignCatalog
  \/ \E t \in {bg.due}, r \in CatalogRefreshRemotes : BgStart(t, r)
  \/ \E t \in {now} : BgFetchSettles(t)
  \/ \E t \in {now} : StartRefresh(t)
  \/ SearchPlanets
  \/ GetPlanetByName
  \/ GetSystemPlanets
  \/ GetCatalogStats

SpecCatalog == InitCatalog /\ [][NextCatalog]_vars

\* ------------------------------------------------------------------------
\* The ready-callback queue next to initializeNASACatalog: callbacks are
\* registered before the call, between any two of its turns, and after it

MaxCallbacks == 3

\* what a registered callback does when called
ReadyCallbacks == {[throws |-> FALSE], [throws |-> TRUE]}

\* storage at page load: empty, or a fresh cache of one planet
ReadyStores ==
  {[data |-> AbsentData, meta |-> AbsentMeta, readable |-> TRUE, writeFail |-> "none"],
   [data |-> StoredData(RawOne),
    meta |-> StoredMeta(CACHE_VERSION, T0 - DAY_MS + MINUTE_MS, RawOne),
    readable |-> TRUE, writeFail |-> "none"]}
ReadyRemotes ==
  {[resp |-> "hang", body |-> NoBody], [resp |-> "http", body |-> NoBody],
   [resp |-> "ok", body |-> [k |-> "list", v |-> RawOne]],
   [resp |-> "ok", body |-> [k |-> "stall", v |-> <<>>]]}
ReadyProgress == {NoCallback, [present |-> TRUE, throwsAt |-> {"ready"}]}

InitReady ==
  /\ ValidatorIdle
  /\ ReadersIdle
  /\ EnrichIdle
  /\ TabsIdle
  /\ now = T0
  /\ store \in ReadyStores
  /\ onProgress \in ReadyProgress
  /\ remote \in ReadyRemotes
  /\ pc = "idle"
  /\ fetched = NotFetched
  /\ ret = PendingRet
  /\ initStatus = "pending"
  /\ timer = NoTimer
  /\ requests = 0
  /\ mod = FreshModule
  /\ bg = NoBg
  /\ hist = NoHist

\* some part of the application calls onCatalogReady(fn)
OnCatalogReady(fn) ==
  /\ hist.registered < MaxCallbacks
  /\ \E out \in {onCatalogReady(mod, hist.invoked,
                                  [id |-> hist.registered + 1, throws |-> fn.throws])} :
       /\ mod' = out.mod
       /\ hist' = [hist EXCEPT !.registered = @ + 1, !.invoked = out.invoked]
  /\ UNCHANGED <<now, store, onProgress, remote, pc, fetched, ret, initStatus, timer, requests, bg>>
  /\ UNCHANGED <<validatorVars, catalogVars, enrichVars, tabVars>>

NextReady ==
  \/ InitializeNASACatalog
  \/ \E t \in Instants : FetchSettles(t)
  \/ \E t \in Instants : FetchTimeout(t)
  \/ FetchAborted
  \/ \E t \in Instants : BodySettles(t)
  \/ LoadContinues
  \/ InitContinues
  \/ \E fn \in ReadyCallbacks : OnCatalogReady(fn)

SpecReady == InitReady /\ [][NextReady]_vars

\* the event loop runs the function once called, the continuation of every
\* promise that can settle, and every timer callback that is due; nothing
\* obliges the application to register callbacks
FairReady ==
  /\ WF_vars(InitializeNASACatalog)
  /\ WF_vars(\E t \in Instants : FetchSettles(t))
  /\ WF_vars(\E t \in Instants : FetchTimeout(t))
  /\ WF_vars(FetchAborted)
  /\ WF_vars(\E t \in Instants : BodySettles(t))
  /\ WF_vars(LoadContinues)
  /\ WF_vars(InitContinues)
SpecReadyFair == InitReady /\ [][NextReady]_vars /\ FairReady

\* ------------------------------------------------------------------------
\* Page loads over several days on one browser profile: each page load
\* evaluates the modules anew and calls initializeNASACatalog(); whatever
\* the previous page had pending (request, timers, promises) is gone with
\* it.  The archive answers a request at once or never.  hist.loads counts
\* the page loads, hist.goodWrite is the clock of the last write of a
\* non-empty list to the cache.

MaxLoads == 3

\* the page is opened on day 0, 2, 3, 6 and 8
ReloadDays == {0, 2, 3, 6, 8}
ReloadInstants == {T0 + d * DAY_MS : d \in ReloadDays}
ReloadRemotes ==
  {[resp |-> "http", body |-> NoBody], [resp |-> "hang", body |-> NoBody],
   [resp |-> "ok", body |-> [k |-> "list", v |-> RawOne]],
   [resp |-> "ok", body |-> [k |-> "list", v |-> RawBig]],
   [resp |-> "ok", body |-> [k |-> "list", v |-> RawEmpty]],
   [resp |-> "ok", body |-> [k |-> "syntax", v |-> <<>>]]}

InitReload ==
  /\ ValidatorIdle
  /\ ReadersIdle
  /\ EnrichIdle
  /\ TabsIdle
  /\ now = T0
  /\ store \in {[data |-> AbsentData, meta |-> AbsentMeta, readable |-> TRUE,
                  writeFail |-> "none"]}
  /\ onProgress = NoCallback
  /\ remote = NoRemote
  /\ pc = "idle"
  /\ fetched = NotFetched
  /\ ret = PendingRet
  /\ initStatus = "pending"
  /\ timer = NoTimer
  /\ requests = 0
  /\ mod = FreshModule
  /\ bg = NoBg
  /\ hist = NoHist

\* the page is (re)loaded at clock t: database.js is evaluated anew and the
\* application calls initializeNASACatalog(); rem is how the archive will
\* answer the request of this page.  No page load comes between two
\* continuations that are already due.
PageLoad(t, rem) ==
  /\ hist.loads < MaxLoads
  /\ pc \in {"idle", "fetch", "body", "done"}
  /\ t \in ReloadInstants
  /\ IF hist.loads = 0 THEN t = now ELSE t > now
  /\ \E out \in {CallLoad(store, t, NoCallback)} :
       /\ pc' = out.pc
       /\ ret' = out.ret
       /\ fetched' = out.fetched
       /\ timer' = out.timer
       /\ requests' = out.requests
       /\ remote' = IF out.requests = 0 THEN NoRemote ELSE rem
       /\ hist' = [Called(hist, store, t, out) EXCEPT !.loads = @ + 1, !.fetchError = ""]
  /\ now' = t
  /\ mod' = FreshModule
  /\ initStatus' = "pending"
  /\ bg' = NoBg
  /\ UNCHANGED <<store, onProgress>>
  /\ UNCHANGED <<validatorVars, catalogVars, enrichVars, tabVars>>

NextReload ==
  \/ \E t \in ReloadInstants, rem \in ReloadRemotes : PageLoad(t, rem)
  \/ \E t \in {now} : FetchSettles(t)
  \/ \E t \in {timer.deadline} : FetchTimeout(t)
  \/ FetchAborted
  \/ \E t \in {now} : BodySettles(t)
  \/ LoadContinues
  \/ InitContinues
  \/ \E t \in {bg.due}, r \in ReloadRemotes : BgStart(t, r)
  \/ \E t \in {now} : BgFetchSettles(t)
  \/ \E t \in {bg.timer.deadline} : BgTimeout(t)
  \/ \E t \in {now} : BgBodySettles(t)

SpecReload == InitReload /\ [][NextReload]_vars

\* ------------------------------------------------------------------------
\* Two tabs of one browser profile write the cache.  localStorage is shared
\* and nothing orders the calls of different tabs, so the two setItem calls
\* of one setCachedData are separate steps, and so are the two removeItem
\* calls of one clearCache; each setItem may fail (quota).
\* hist.writes numbers the calls of setCachedData; hist.dataBy and
\* hist.metaBy are the calls that wrote the entries in storage (0: none).

MaxWrites == 3

TabIds == {1, 2}
\* what a tab has fetched and cleaned, and when
TabPayloads == {RawOne, RawBig}
TabInstants == {T0, T0 + REFRESH_DELAY_MS}
SetItemFailures == {"none", "data", "meta"}

InitTabs ==
  /\ ValidatorIdle
  /\ ReadersIdle
  /\ EnrichIdle
  /\ TabsIdle
  /\ now = T0
  /\ store = [data |-> AbsentData, meta |-> AbsentMeta, readable |-> TRUE,
              writeFail |-> "none"]
  /\ onProgress = NoCallback
  /\ remote = NoRemote
  /\ pc = "idle"
  /\ fetched = NotFetched
  /\ ret = PendingRet
  /\ initStatus = "pending"
  /\ timer = NoTimer
  /\ requests = 0
  /\ mod = FreshModule
  /\ bg = NoBg
  /\ hist = NoHist

\* tab i calls setCachedData(planets, meta) with what Ingest hands it, and
\* the call runs up to and including localStorage.setItem(CACHE_KEY, ...);
\* when that setItem throws, the catch block ends the call
SetItemData(i, raws, t, fail) ==
  /\ hist.writes < MaxWrites
  /\ tabs[i].pc \in {"idle", "done"}
  /\ t >= now
  /\ \E vc \in {CleanOf(raws)} :
       LET meta == [version |-> CACHE_VERSION, fetchedAt |-> t,
                    recordCount |-> Len(vc.planets), report |-> vc.report,
                    truncated |-> FALSE, cachedCount |-> 0]
       IN /\ tabs' = [tabs EXCEPT ![i] =
                        [pc |-> IF fail = "data" THEN "done" ELSE "wrote-data",
                         call |-> hist.writes + 1, data |-> vc.planets, meta |-> meta,
                         fail |-> fail]]
          /\ store' = [store EXCEPT !.data = setCachedData(store, vc.planets, meta,
                                                            IF fail = "data" THEN "data"
                                                            ELSE "meta").data]
  /\ hist' = [hist EXCEPT !.writes = @ + 1,
                          !.dataBy = IF fail = "data" THEN @ ELSE hist.writes + 1]
  /\ now' = t
  /\ UNCHANGED <<onProgress, remote, pc, fetched, ret, initStatus, timer, requests, mod, bg>>
  /\ UNCHANGED <<validatorVars, catalogVars, enrichVars>>

\* the call of tab i goes on: setCacheMeta(meta), whose setItem may throw
SetItemMeta(i) ==
  /\ tabs[i].pc = "wrote-data"
  /\ tabs' = [tabs EXCEPT ![i].pc = "done"]
  /\ store' = IF tabs[i].fail = "meta" THEN store
              ELSE [store EXCEPT !.meta = setCachedData(store, tabs[i].data, tabs[i].meta,
                                                        "none").meta]
  /\ hist' = [hist EXCEPT !.metaBy = IF tabs[i].fail = "meta" THEN @ ELSE tabs[i].call]
  /\ UNCHANGED <<now, onProgress, remote, pc, fetched, ret, initStatus, timer, requests, mod, bg>>
  /\ UNCHANGED <<validatorVars, catalogVars, enrichVars>>

\* tab i calls clearCache(): the call runs up to and including
\* localStorage.removeItem(CACHE_KEY)
RemoveItemData(i) ==
  /\ tabs[i].pc \in {"idle", "done"}
  /\ tabs' = [tabs EXCEPT ![i] = [NoWrite EXCEPT !.pc = "removed-data"]]
  /\ store' = [store EXCEPT !.data = AbsentData]
  /\ hist' = [hist EXCEPT !.dataBy = 0]
  /\ UNCHANGED <<now, onProgress, remote, pc, fetched, ret, initStatus, timer, requests, mod, bg>>
  /\ UNCHANGED <<validatorVars, catalogVars, enrichVars>>

\* the call of tab i goes on: localStorage.removeItem(CACHE_META_KEY)
RemoveItemMeta(i) ==
  /\ tabs[i].pc = "removed-data"
  /\ tabs' = [tabs EXCEPT ![i].pc = "done"]
  /\ store' = [store EXCEPT !.meta = AbsentMeta]
  /\ hist' = [hist EXCEPT !.metaBy = 0]
  /\ UNCHANGED <<now, onProgress, remote, pc, fetched, ret, initStatus, timer, requests, mod, bg>>
  /\ UNCHANGED <<validatorVars, catalogVars, enrichVars>>

NextTabs ==
  \/ \E i \in TabIds, raws \in TabPayloads, t \in TabInstants, fail \in SetItemFailures :
       SetItemData(i, raws, t, fail)
  \/ \E i \in TabIds : SetItemMeta(i)
  \/ \E i \in TabIds : RemoveItemData(i)
  \/ \E i \in TabIds : RemoveItemMeta(i)

SpecTabs == InitTabs /\ [][NextTabs]_vars

\* ------------------------------------------------------------------------
\* Properties.  The cache conditions of the specification, written from its
\* text (section 4.4) and independent of the operators above.

SpecMetaRead(st) == st.readable /\ st.meta.k = "json"
SpecFresh(st, t) ==
  /\ SpecMetaRead(st)
  /\ st.meta.v.version = 2
  /\ t - st.meta.v.fetchedAt < 24 * 60 * 60 * 1000
SpecUsable(st, t) ==
  /\ SpecMetaRead(st)
  /\ st.meta.v.version = 2
  /\ t - st.meta.v.fetchedAt < 7 * 24 * 60 * 60 * 1000
SpecPayload(st) == IF st.readable /\ st.data.k = "json" THEN st.data.v ELSE <<>>

\* initializeNASACatalog has run to its end; loadNASAPlanets has settled
Done == pc = "done"
Returned == pc \in {"returned", "done"}
CallbackQuiet == onProgress.throwsAt = {}
FetchFailed == Returned /\ requests = 1 /\ hist.fetchError /= ""

SourceTags == {"cache (fresh)", "NASA Exoplanet Archive (live)",
               "cache (stale, <age> old)", "built-in fallback"}

\* C1: loadNASAPlanets never rejects because of a remote failure.  Whatever
\* the cache holds and however the request ends, a settled promise is
\* resolved with one of the four source tags whenever the progress callback
\* is absent or returns normally; the only rejection the function can produce
\* carries the callback's own error, never the error of the request.
C1_NeverRejectsOnRemoteFailure ==
  Returned =>
    /\ ret.status \in {"resolved", "rejected"}
    /\ ret.status = "rejected" => ret.error = ErrCallback /\ ~CallbackQuiet
    /\ ret.status = "resolved" => ret.source.kind \in SourceTags
    /\ ret.error \in FetchErrors => ret.status = "resolved"

C1_Witness ==
  /\ FetchFailed
  /\ hist.fetchError = ErrTimeout
  /\ ret.status = "resolved"
  /\ ret.source.kind = "built-in fallback"

\* C2: called with a fresh, non-empty cache, loadNASAPlanets issues no remote
\* request, and its promise resolves (always, unless the callback throws at
\* 'cache-hit') to exactly the cached records tagged "cache (fresh)" with
\* fromCache = true.
C2_FreshFastPath ==
  (pc /= "idle" /\ SpecFresh(hist.callStore, hist.callTime)
     /\ Len(SpecPayload(hist.callStore)) > 0)
  => /\ requests = 0
     /\ Returned
     /\ ~CbThrows(onProgress, "cache-hit") => ret.status = "resolved"
     /\ ret.status = "resolved" =>
          /\ ret.planets = [k |-> "list", v |-> SpecPayload(hist.callStore)]
          /\ ret.source.kind = "cache (fresh)"
          /\ ret.fromCache

C2_Witness ==
  /\ Done
  /\ SpecFresh(hist.callStore, hist.callTime)
  /\ Len(SpecPayload(hist.callStore)) > 0
  /\ ret.status = "resolved"
  /\ ret.source.kind = "cache (fresh)"
  /\ remote.resp = "ok"

\* C3: when the remote request fails and the cache is usable (version
\* matches, younger than 7 days) with a non-empty payload, loadNASAPlanets
\* (callback absent or returning normally) returns the cached records with
\* fromCache = true, a "stale" source tag, the cached fetchedAt and the
\* error message of the failed request.
C3_StaleFallback ==
  (FetchFailed /\ CallbackQuiet /\ SpecUsable(hist.retStore, hist.retTime)
     /\ Len(SpecPayload(hist.retStore)) > 0)
  => /\ ret.status = "resolved"
     /\ ret.planets = [k |-> "list", v |-> SpecPayload(hist.retStore)]
     /\ ret.fromCache
     /\ ret.source.kind = "cache (stale, <age> old)"
     /\ ret.fetchedAt = hist.retStore.meta.v.fetchedAt
     /\ ret.error = hist.fetchError

C3_Witness ==
  /\ FetchFailed
  /\ CallbackQuiet
  /\ hist.retTime - hist.retStore.meta.v.fetchedAt = 3 * DAY_MS
  /\ ret.fromCache
  /\ ret.source = [kind |-> "cache (stale, <age> old)", age |-> [n |-> 3, unit |-> "days"]]
  /\ ret.error = ErrHttp

\* C4: when the remote request fails and there is no usable non-empty cache,
\* loadNASAPlanets (callback absent or returning normally) returns
\* planets = null, report = null, fetchedAt = null, fromCache = false and
\* source "built-in fallback"; initializeNASACatalog keeps the bundled
\* catalog and sets dataSource to 'built-in'.
C4_BuiltinFallback ==
  (FetchFailed /\ CallbackQuiet
     /\ ~(SpecUsable(hist.retStore, hist.retTime) /\ Len(SpecPayload(hist.retStore)) > 0))
  => /\ ret.status = "resolved"
     /\ ret.planets.k = "null"
     /\ ret.report.k = "null"
     /\ ret.fetchedAt = Null
     /\ ~ret.fromCache
     /\ ret.source.kind = "built-in fallback"
     /\ mod.catalog = buildCatalog
     /\ mod.dataSource = "built-in"

C4_Witness ==
  /\ FetchFailed
  /\ CallbackQuiet
  /\ hist.retStore.meta.k = "json"
  /\ hist.retStore.meta.v.version = CACHE_VERSION
  /\ hist.retTime - hist.retStore.meta.v.fetchedAt >= 7 * DAY_MS
  /\ Len(SpecPayload(hist.retStore)) > 0
  /\ ret.source.kind = "built-in fallback"
  /\ mod.dataSource = "built-in"
  /\ mod.catalogReady

\* C5: the catalog served to search / getByName / getStats is never empty,
\* after initializeNASACatalog and after any background refresh.
C5_CatalogNeverEmpty == CatalogLength(mod.catalog) > 0

\* C6: after a live fetch (storage writable, cleaned list non-empty and
\* within the size budget) the cache holds exactly the returned records and
\* the returned fetchedAt, and a second loadNASAPlanets less than 24 h later
\* returns the same records from the fresh cache.
C6_LiveFetchIsCached ==
  (Returned /\ ret.status = "resolved" /\ ret.source.kind = "NASA Exoplanet Archive (live)"
     /\ hist.retStore.readable /\ hist.retStore.writeFail = "none"
     /\ Len(ret.planets.v) > 0 /\ JsonLength(ret.planets.v) <= SIZE_LIMIT)
  => /\ SpecPayload(hist.retStore) = ret.planets.v
     /\ hist.retStore.meta.k = "json"
     /\ hist.retStore.meta.v.fetchedAt = ret.fetchedAt
     /\ \A t2 \in Instants :
          (t2 >= hist.retTime /\ t2 - ret.fetchedAt < 24 * 60 * 60 * 1000)
          => /\ FreshHit(hist.retStore, t2)
             /\ FreshResult(hist.retStore, NoCallback).planets = ret.planets
             /\ FreshResult(hist.retStore, NoCallback).source.kind = "cache (fresh)"

\* what loadNASAPlanets does without a progress callback, for the storage st
\* found at call time t0, the answer rem of the archive and the settle time t1
RefOutcome(st, t0, rem, t1) ==
  IF FreshHit(st, t0) THEN [store |-> st, ret |-> FreshResult(st, NoCallback)]
  ELSE IF rem.resp = "http" THEN [store |-> st, ret |-> LoadCatch(st, t1, NoCallback, ErrHttp)]
  ELSE IF rem.resp = "network"
  THEN [store |-> st, ret |-> LoadCatch(st, t1, NoCallback, ErrNetwork)]
  ELSE IF rem.resp = "hang"
  THEN [store |-> st, ret |-> LoadCatch(st, t1, NoCallback, ErrTimeout)]
  ELSE IF rem.body.k = "stall" THEN [store |-> st, ret |-> PendingRet]
  ELSE LoadAfterFetch(st, t1, NoCallback, FetchBody(NoCallback, rem.body), rem.body)

\* C7: the progress callback is purely observational.  Whatever onProgress
\* does (absent, returning, throwing at some phase), loadNASAPlanets and
\* initializeNASACatalog end with the result, the cache and the catalog state
\* they end with when no callback is passed.
C7_CallbackObservational ==
  (Done /\ bg.pc \in {"none", "scheduled"})
  => LET ref == RefOutcome(hist.callStore, hist.callTime, remote, hist.retTime)
         fin == InitFinish(FreshModule, ref.ret, NoCallback, hist.retTime)
     IN /\ ret = ref.ret
        /\ store = ref.store
        /\ mod = fin.mod
        /\ initStatus = fin.status

\* C8: isCacheFresh is true iff the metadata version equals the schema
\* version and now - fetchedAt < 24 h; isCacheUsable is true iff the version
\* matches and now - fetchedAt < 7 days.  An entry aged 23 h 59 min is fresh,
\* one aged 24 h 1 min is not fresh but usable, one aged 7 d 1 h is neither.
C8_StalenessThresholds ==
  /\ isCacheFresh(store, now) = SpecFresh(store, now)
  /\ isCacheUsable(store, now) = SpecUsable(store, now)
  /\ (SpecMetaRead(store) /\ store.meta.v.version = 2) =>
       LET age == now - store.meta.v.fetchedAt
       IN /\ age = 86340000 => isCacheFresh(store, now) /\ isCacheUsable(store, now)
          /\ age = 86400000 => ~isCacheFresh(store, now) /\ isCacheUsable(store, now)
          /\ age = 86460000 => ~isCacheFresh(store, now) /\ isCacheUsable(store, now)
          /\ age = 604800000 => ~isCacheFresh(store, now) /\ ~isCacheUsable(store, now)
          /\ age = 608400000 => ~isCacheFresh(store, now) /\ ~isCacheUsable(store, now)

C8_Witness ==
  /\ SpecMetaRead(store)
  /\ store.meta.v.version = 2
  /\ now - store.meta.v.fetchedAt = 86460000
  /\ ~isCacheFresh(store, now)
  /\ isCacheUsable(store, now)
  /\ requests = 1
  /\ Done
  /\ ret.fromCache

\* C9: a cache entry whose metadata version differs from the schema version
\* is neither fresh nor usable at any age, and loadNASAPlanets never returns
\* records from the cache (fresh path or stale path) under such metadata.
C9_VersionGate ==
  /\ (SpecMetaRead(store) /\ store.meta.v.version /= 2) =>
       \A t \in Instants : ~isCacheFresh(store, t) /\ ~isCacheUsable(store, t)
  /\ (Returned /\ ret.status = "resolved" /\ ret.fromCache) =>
       SpecMetaRead(hist.retStore) /\ hist.retStore.meta.v.version = 2
  /\ (Returned /\ SpecMetaRead(hist.retStore) /\ hist.retStore.meta.v.version /= 2
        /\ ret.status = "resolved") =>
       ret.source.kind \in {"NASA Exoplanet Archive (live)", "built-in fallback"}

C9_Witness ==
  /\ FetchFailed
  /\ SpecMetaRead(hist.retStore)
  /\ hist.retStore.meta.v.version = 1
  /\ hist.retTime - hist.retStore.meta.v.fetchedAt < 24 * 60 * 60 * 1000
  /\ Len(SpecPayload(hist.retStore)) > 0
  /\ ret.status = "resolved"
  /\ ret.source.kind = "built-in fallback"

\* C10: a corrupted or unreadable cache is a cache miss.  When an entry does
\* not parse or the storage read throws, the read returns null, and
\* loadNASAPlanets goes on to the live fetch and then the built-in fallback:
\* it never fails because of the cache.
CacheBroken(st) == ~st.readable \/ st.data.k = "corrupt" \/ st.meta.k = "corrupt"

C10_CorruptCacheIsMiss ==
  /\ (~store.readable \/ store.data.k = "corrupt") => getCachedData(store).null
  /\ (~store.readable \/ store.meta.k = "corrupt") => getCacheMeta(store).null
  /\ (pc /= "idle" /\ CacheBroken(hist.callStore)) =>
       /\ ~CbThrows(onProgress, "fetching") => requests = 1
       /\ (Returned /\ ret.status = "rejected") => ret.error = ErrCallback /\ ~CallbackQuiet
       /\ (Returned /\ CallbackQuiet) =>
            /\ ret.status = "resolved"
            /\ hist.fetchError = "" => ret.source.kind = "NASA Exoplanet Archive (live)"
            /\ hist.fetchError /= "" => ret.source.kind = "built-in fallback"

C10_Witness ==
  /\ Done
  /\ hist.callStore.data.k = "corrupt"
  /\ SpecFresh(hist.callStore, hist.callTime)
  /\ hist.fetchError = ErrNetwork
  /\ ret.status = "resolved"
  /\ ret.source.kind = "built-in fallback"
  /\ mod.catalogReady

\* C11: errors of the two setItem calls are never propagated.  When the data
\* write or the metadata write fails after a live fetch delivered a list,
\* loadNASAPlanets still resolves with the cleaned live records, tagged
\* "NASA Exoplanet Archive (live)" with fromCache = false, and a background
\* refresh in the same situation still calls its completion callback.
C11_WriteErrorsSwallowed ==
  /\ (Returned /\ requests = 1 /\ remote.resp = "ok" /\ remote.body.k = "list"
        /\ CallbackQuiet /\ store.writeFail /= "none")
     => /\ ret.status = "resolved"
        /\ ret.source.kind = "NASA Exoplanet Archive (live)"
        /\ ~ret.fromCache
        /\ ret.planets = ListOf(CleanOf(remote.body.v).planets)
        /\ ret.error = ""
  /\ (bg.pc = "done" /\ bg.requests = 1 /\ bg.remote.resp = "ok"
        /\ bg.remote.body.k = "list" /\ store.writeFail /= "none")
     => bg.onComplete /\ bg.status = "resolved"

\* C11 witness: a live fetch ended with records although the data write
\* failed and storage is as it was found
C11_Witness ==
  /\ Done /\ store.writeFail = "data" /\ store.readable
  /\ ret.source.kind = "NASA Exoplanet Archive (live)"
  /\ Len(ret.planets.v) > 0
  /\ store = hist.callStore

\* the same for a background refresh whose metadata write failed
C11_WitnessRefresh ==
  /\ bg.pc = "done" /\ bg.onComplete /\ store.writeFail = "meta"
  /\ store.meta = hist.bgStore.meta /\ store.data /= hist.bgStore.data

\* the list handed to the last successful setCachedData call
Wrote ==
  /\ store.writeFail = "none"
  /\ \/ bg.onComplete
     \/ Returned /\ ret.status = "resolved"
        /\ ret.source.kind = "NASA Exoplanet Archive (live)"
LastWritten == IF bg.onComplete THEN CleanOf(bg.remote.body.v).planets ELSE ret.planets.v

\* C12: after a successful write the stored array serializes to at most
\* 4.5 * 1024 * 1024 characters; a list over the budget is stored as its
\* first 80% with truncated = true, a list within it whole with
\* truncated = false.
C12_SizeBoundedCache ==
  Wrote =>
    LET full == LastWritten
        stored == store.data.v
    IN /\ store.data.k = "json" /\ store.meta.k = "json"
       /\ JsonLength(stored) <= 4718592
       /\ IF JsonLength(full) > 4718592
          THEN /\ stored = JsonList(SubSeq(full, 1, (Len(full) * 8) \div 10))
               /\ store.meta.v.truncated
          ELSE /\ stored = JsonList(full)
               /\ ~store.meta.v.truncated

\* a background refresh that issued its request and failed in the fetch,
\* in parsing the body or in mapping it
BgFailed ==
  /\ bg.pc = "done" /\ bg.requests = 1
  /\ \/ bg.remote.resp \in {"http", "network", "hang"}
     \/ bg.remote.resp = "ok" /\ bg.remote.body.k \in {"syntax", "nonlist", "nullitem"}

\* C13: a failed background refresh resolves its promise, does not call the
\* completion callback and leaves the cache entries, the catalog and the
\* data-source tag as they were when it started.
C13_RefreshSwallowsErrors ==
  /\ bg.status /= "rejected"
  /\ BgFailed => /\ bg.status = "resolved"
                 /\ ~bg.onComplete
                 /\ store = hist.bgStore
                 /\ mod = hist.bgMod

\* C13 witness: a refresh whose answer held a null item (mapping throws)
C13_Witness ==
  /\ BgFailed /\ bg.remote.body.k = "nullitem"
  /\ mod.dataSource = "cache" /\ store = hist.bgStore

\* C14: when the cache is fresh at the start of backgroundRefresh, no
\* request is issued, nothing is written, the completion callback is not
\* called and the catalog is unchanged.
C14_RefreshSkippedWhenFresh ==
  (bg.pc \in {"fetch", "body", "done"} /\ SpecFresh(hist.bgStore, hist.bgTime))
  => /\ bg.pc = "done" /\ bg.status = "resolved"
     /\ bg.requests = 0
     /\ ~bg.onComplete
     /\ store = hist.bgStore
     /\ mod = hist.bgMod

\* C14 witness: the refresh timer fired on a cache that is still fresh
C14_Witness ==
  /\ bg.pc = "done" /\ SpecFresh(hist.bgStore, hist.bgTime)
  /\ bg.requests = 0 /\ hist.bgTime >= hist.retTime + 5000

\* C16: validateAndClean accounts for every input record: totalInput is the
\* length of the input, totalOutput the length of the cleaned list, cleaned
\* the number of dropped duplicates, totalOutput + cleaned <= totalInput,
\* and no cleaned record has a null radius, mass, eqTemp, period or
\* semiMajorAxis.
C16_ValidatorAccounting ==
  validated.done =>
    /\ validated.report.totalInput = Len(rawData)
    /\ mapped.v = SharedWith(mapped.v, validated.planets)
    /\ validated.report.totalOutput = Len(validated.planets)
    /\ validated.report.totalOutput + validated.report.cleaned
         <= validated.report.totalInput
    /\ \A i \in 1..Len(validated.planets) :
         LET p == validated.planets[i]
         IN /\ p.radius /= Null /\ p.mass /= Null /\ p.eqTemp /= Null
            /\ p.period /= Null /\ p.semiMajorAxis /= Null

\* C16 witness: a list with a dropped duplicate and a kept record that came
\* in without radius, mass, temperature, period and orbit size
C16_Witness ==
  /\ validated.done
  /\ validated.report.cleaned > 0
  /\ \E i \in 1..Len(rawData) :
       /\ IsFirstOccurrence(MapAll(rawData), i)
       /\ MapAll(rawData)[i].radius = Null /\ MapAll(rawData)[i].mass = Null
       /\ MapAll(rawData)[i].eqTemp = Null /\ MapAll(rawData)[i].period = Null
  /\ validated.report.nullFields.semiMajorAxis > 0

\* C17: in the cleaned list every input name occurs exactly once, the kept
\* record is the one built from the first input record of that name, and
\* report.duplicates holds exactly the names occurring more than once in the
\* input, each with its number of occurrences.
C17_Deduplication ==
  validated.done =>
    LET inp == mapped.v
        out == validated.planets
        names == {inp[i].name : i \in 1..Len(inp)}
        occurrences(n) == {i \in 1..Len(inp) : inp[i].name = n}
        first(n) == CHOOSE i \in occurrences(n) : \A j \in occurrences(n) : i <= j
    IN /\ \A n \in names :
            /\ Cardinality({k \in 1..Len(out) : out[k].name = n}) = 1
            /\ \E k \in 1..Len(out) :
                 /\ out[k].name = n
                 /\ out[k].controversial = inp[first(n)].controversial
                 /\ out[k].discoveryRef = inp[first(n)].discoveryRef
                 /\ out[k].starLumLog = inp[first(n)].starLumLog
       /\ \A k \in 1..Len(out) : out[k].name \in names
       /\ validated.report.duplicates =
            {[name |-> n, count |-> Cardinality(occurrences(n))] :
               n \in {m \in names : Cardinality(occurrences(m)) > 1}}

\* C18: every cleaned record has radius >= 0, mass >= 0 and distance >= 0
\* (a number, not NaN and not null).
C18_NonNegativeAfterCleaning ==
  validated.done =>
    \A i \in 1..Len(validated.planets) :
      LET p == validated.planets[i]
      IN /\ p.radius \notin {Null, NaN} /\ p.radius >= 0
         /\ p.mass \notin {Null, NaN} /\ p.mass >= 0
         /\ p.distance \notin {Null, NaN} /\ p.distance >= 0

\* C20: enrichPlanet is idempotent.  After any number of calls the seven
\* derived properties are the ones the first call attached, and every other
\* field of the planet is the one it was given with.
C20_EnrichIdempotent ==
  enriching.applied >= 1 =>
    /\ \A f \in DerivedProperties : enriching.planet[f] = enriching.once[f]
    /\ \A f \in (DOMAIN enriching.given) \ DerivedProperties :
         enriching.planet[f] = enriching.given[f]
    /\ DOMAIN enriching.planet = DOMAIN enriching.given

\* C20 witness: a planet with position, magnitude, method, star and sizes,
\* enriched twice: every derived property is attached and carries data
C20_Witness ==
  /\ enriching.applied = 2
  /\ enriching.planet.hzStatus.k = "obj" /\ enriching.planet.hzStatus.label /= "Unknown"
  /\ enriching.planet.esi.k = "obj" /\ enriching.planet.esi.components /= EmptyObject
  /\ enriching.planet.coords.k = "obj"
  /\ enriching.planet.constellation.k = "obj"
  /\ enriching.planet.observability.k = "obj"
  /\ enriching.planet.magnitudeGuidance.k = "obj"
  /\ enriching.planet.discoveryMethodInfo.k = "obj"
  /\ enriching.given.hzStatus = Undefined

\* the whole catalogs of a load: the one it found and the one it builds
WholeOld == load.old
WholeNew == ArrayOf(processNASAPlanets(load.planets))
\* what a reader returns on catalog c for the arguments of the last call
ReadOn(c) ==
  IF c.k = "built-in" THEN OfBuiltIn
  ELSE CASE seen.op = "search" -> searchPlanets(c.v, seen.query, seen.filters).results
         [] seen.op = "byName" -> getPlanetByName(c.v, seen.name)
         [] seen.op = "system" -> getSystemPlanets(c.v, seen.name)
         [] seen.op = "stats" -> getCatalogStats([mod EXCEPT !.catalog = c])

\* C15: atomic catalog swap.  While processNASAPlanets builds the new array
\* the catalog is the whole old one; once assigned it is the whole new one,
\* every entry built and enriched; and a reader called at any point ran over
\* one of the two and returned what it returns on that one.
C15_AtomicCatalogSwap ==
  /\ load.phase = "idle" => mod.catalog = buildCatalog
  /\ load.phase = "building" => mod.catalog = WholeOld
  /\ load.phase = "assigned" => mod.catalog = WholeNew
  /\ mod.catalog.k = "array" =>
       \A i \in 1..Len(mod.catalog.v) :
         /\ mod.catalog.v[i].hzStatus.k = "obj"
         /\ mod.catalog.v[i].esi.k = "obj"
         /\ mod.catalog.v[i] = enrichPlanet(mod.catalog.v[i])
  /\ seen.op /= "none" =>
       /\ seen.catalog \in {WholeOld, WholeNew} \cup {buildCatalog}
       /\ load.phase = "building" => seen.catalog = WholeOld
       /\ seen.result = ReadOn(seen.catalog)

\* C15 witness: a search called in the middle of a refresh, one planet of
\* the new array built and others not yet, returned planets of the old
\* catalog, which differs from the new one
C15_Witness ==
  /\ load.kind = "refresh" /\ load.phase = "building"
  /\ Len(load.processed) >= 1 /\ Len(load.processed) < Len(load.planets)
  /\ seen.op = "search" /\ seen.catalog.k = "array" /\ Len(seen.result) >= 1
  /\ seen.catalog = WholeOld /\ WholeOld /= WholeNew

\* C15 witness: the refresh assigned, a reader sees the whole new catalog
C15_WitnessAfter ==
  /\ load.kind = "refresh" /\ load.phase = "assigned"
  /\ seen.op = "system" /\ Len(seen.result) >= 1
  /\ seen.catalog = WholeNew /\ WholeOld /= WholeNew

\* the query as it is matched: surrounding blanks removed
AsTyped(query) == trim(query)
\* s contains q, letter case ignored
ContainsIgnoringCase(s, q) ==
  \E i \in 1..(Len(s) - Len(q) + 1) :
    toLowerCase(SubSeq(s, i, i + Len(q) - 1)) = toLowerCase(q)
\* record p matches the query and satisfies every supplied filter
Qualifies(p, query, f) ==
  /\ AsTyped(query) /= "" =>
       \/ ContainsIgnoringCase(p.name, AsTyped(query))
       \/ ContainsIgnoringCase(p.system, AsTyped(query))
       \/ ContainsIgnoringCase(p.type, AsTyped(query))
       \/ ContainsIgnoringCase(p.discoveryMethod, AsTyped(query))
       \/ (p.constellation.k = "obj"
           /\ ContainsIgnoringCase(p.constellation.name, AsTyped(query)))
  /\ f.type /= "" => p.type = f.type
  /\ f.minHabitability /= Unset => p.habitability >= f.minHabitability
  /\ f.maxDistance /= Unset => (p.distance \notin {NaN, Inf} /\ Rel(p.distance) <= f.maxDistance)
  /\ f.minDistance /= Unset => (p.distance = Inf \/ (p.distance /= NaN /\ Rel(p.distance) >= f.minDistance))
  /\ f.minTemp /= Unset => (p.eqTemp = Inf \/ (p.eqTemp /= NaN /\ Rel(p.eqTemp) >= f.minTemp))
  /\ f.maxTemp /= Unset => (p.eqTemp \notin {NaN, Inf} /\ Rel(p.eqTemp) <= f.maxTemp)
  /\ f.minRadius /= Unset => (p.radius = Inf \/ (p.radius /= NaN /\ Rel(p.radius) >= f.minRadius))
  /\ f.maxRadius /= Unset => (p.radius \notin {NaN, Inf} /\ Rel(p.radius) <= f.maxRadius)
  /\ f.discoveredAfter \notin {Unset, 0} => Rel(p.discovered) >= f.discoveredAfter
  /\ f.starType /= "" => (Len(p.starType) >= Len(f.starType)
                          /\ SubSeq(p.starType, 1, Len(f.starType)) = f.starType)
  /\ f.discoveryMethod /= "" => p.discoveryMethod = f.discoveryMethod
  /\ f.inHZ = "conservative" => p.hzStatus.conservative
  /\ f.inHZ = "optimistic" => p.hzStatus.optimistic
  /\ f.minESI /= Unset => (p.esi.global /= NaN /\ p.esi.global >= f.minESI)

\* C19: search and filter composition.  searchPlanets(query, filters)
\* returns exactly the catalog records that match the query and satisfy
\* every supplied filter, each once, and leaves the catalog as it was.
C19_SearchFilterComposition ==
  (seen.op = "search" /\ seen.catalog.k = "array") =>
    /\ {seen.result[i] : i \in 1..Len(seen.result)}
         = {seen.catalog.v[i] : i \in {j \in 1..Len(seen.catalog.v) :
                                        Qualifies(seen.catalog.v[j], seen.query, seen.filters)}}
    /\ Len(seen.result)
         = Cardinality({j \in 1..Len(seen.catalog.v) :
                          Qualifies(seen.catalog.v[j], seen.query, seen.filters)})
    /\ seen.after = seen.catalog
    /\ mod.catalog = seen.catalog

\* C19 witness: "trappist" with minHabitability 0.5 on a catalog of NASA
\* planets returned some of them and left others out
C19_Witness ==
  /\ seen.op = "search" /\ seen.query = "trappist"
  /\ seen.filters.minHabitability = 50
  /\ load.phase = "assigned"
  /\ Len(seen.result) >= 1 /\ Len(seen.result) < Len(seen.catalog.v)

\* C19 witness: no query and no filter returns every record of a catalog
\* that is not in name order, sorted, the catalog keeping its order
C19_WitnessAll ==
  /\ seen.op = "search" /\ seen.query = "" /\ seen.filters = NoFilters
  /\ seen.catalog.k = "array"
  /\ Len(seen.result) = Len(seen.catalog.v) /\ seen.result /= seen.catalog.v

\* a score on the scale 0..one (one stands for 1.0); null is "not computed"
InUnitInterval(v, one) == v = Null \/ (v \notin {NaN, Inf} /\ 0 <= v /\ v <= one)
EsiOf(planet) == planet.esi
EsiInBounds(esi) ==
  /\ esi.components /= EmptyObject =>
        \A n \in {"radius", "density", "escapeVelocity", "surfaceTemp"} :
           InUnitInterval(esi.components[n], 1000000)
  /\ InUnitInterval(esi.interior, 1000)
  /\ InUnitInterval(esi.surface, 1000)
  /\ esi.global /= Null /\ InUnitInterval(esi.global, 1000)

\* C21: ESI bounds.  For every planet whose radius and temperature are
\* present, the four components and the interior, surface and global scores
\* that calculateESI returns lie in [0, 1].
C21_EsiBounds ==
  (enriching.applied >= 1 /\ enriching.given.radius /= Null
                          /\ enriching.given.eqTemp /= Null)
    => EsiInBounds(EsiOf(enriching.planet))

\* input position i repeats the source planet name of an earlier record
TrueDuplicate(raws, i) ==
  /\ raws[i].pl_name /= ""
  /\ \E j \in 1..(i - 1) : raws[j].pl_name = raws[i].pl_name
\* the input positions that must survive, in order
Survivors(raws) ==
  LET upto[i \in 0..Len(raws)] ==
        IF i = 0 THEN <<>>
        ELSE IF TrueDuplicate(raws, i) THEN upto[i - 1] ELSE Append(upto[i - 1], i)
  IN upto[Len(raws)]

\* C22: only true duplicates are left out.  The cleaned output holds, in
\* input order, one record for every input record whose source planet name
\* is not carried by an earlier input record (records without a name
\* included); each carries the input's columns, with defaults for missing
\* ones, and every out-of-range radius, mass, distance or temperature of a
\* kept record has its entry in report.badValues.
C22_OnlyTrueDuplicatesDropped ==
  validated.done =>
    LET keep == Survivors(rawData)
        out == validated.planets
    IN /\ Len(out) = Len(keep)
       /\ \A k \in 1..Len(keep) :
            k <= Len(out) =>
              LET in == mapNASARecord(rawData[keep[k]])
              IN /\ out[k].name = in.name
                 /\ out[k].controversial = in.controversial
                 /\ out[k].starLumLog = in.starLumLog
                 /\ out[k].radius = (IF in.radius = Null THEN 1 ELSE in.radius)
                 /\ out[k].period = (IF in.period = Null THEN 0 ELSE in.period)
                 /\ \A e \in 1..Len(BadValuesOf(in)) :
                      \E b \in 1..Len(validated.report.badValues) :
                        validated.report.badValues[b] = BadValuesOf(in)[e]

\* C23: hard timeout.  While fetchNASAData has not delivered its records
\* (waiting for the response or reading its body) the 30 s abort timer set
\* at its start is pending; an operation that is still undelivered 30 s
\* after its start ends with the timeout error; once the operation has
\* settled no timer is left.
C23_HardTimeout ==
  /\ pc \in {"fetch", "body"} =>
       timer.armed /\ timer.deadline = hist.callTime + FETCH_TIMEOUT_MS
  /\ (Returned /\ requests = 1 /\ hist.retTime >= hist.callTime + FETCH_TIMEOUT_MS)
       => hist.fetchError = ErrTimeout
  /\ pc \in {"fetched", "returned", "done"} => ~timer.armed
  /\ bg.pc \in {"fetch", "body"} =>
       bg.timer.armed /\ bg.timer.deadline = hist.bgTime + FETCH_TIMEOUT_MS
  /\ bg.pc = "done" => ~bg.timer.armed

\* a request of loadNASAPlanets, of backgroundRefresh, is in flight
LoadInFlight == pc \in {"fetch", "body"}
RefreshInFlight == bg.pc \in {"fetch", "body"}

\* C24: never two requests in flight.  Each invocation of loadNASAPlanets
\* and of backgroundRefresh issues at most one request, and the background
\* refresh exists (scheduled, started or finished) only once the initial
\* loadNASAPlanets has returned.
C24_SingleRequestInFlight ==
  /\ ~(LoadInFlight /\ RefreshInFlight)
  /\ requests <= 1
  /\ bg.requests <= 1
  /\ bg.pc /= "none" => pc = "done" /\ ret.status /= "pending"
  /\ LoadInFlight => requests = 1
  /\ RefreshInFlight => bg.requests = 1

\* C24 witness: the initial load sent its request, failed and fell back to
\* the stale cache; the refresh it scheduled now has its own request out
C24_Witness ==
  /\ pc = "done" /\ requests = 1
  /\ ret.source.kind = "cache (stale, <age> old)"
  /\ bg.pc = "fetch" /\ bg.requests = 1

\* the registrations 1..n in registration order
InOrder(n) == [i \in 1..n |-> i]
QueuedIds == [i \in 1..Len(mod.catalogReadyCallbacks) |-> mod.catalogReadyCallbacks[i].id]

\* C25: ready-callback queue.  Until readiness is signalled no callback has
\* been called and the queue holds every registration in order; from then on
\* the queue is empty and every registration has been called exactly once,
\* the queued ones in registration order and the later ones when registered;
\* catalogReady never returns to false.
C25_ReadyQueue ==
  /\ [](/\ ~mod.catalogReady =>
             hist.invoked = <<>> /\ QueuedIds = InOrder(hist.registered)
        /\ mod.catalogReady =>
             hist.invoked = InOrder(hist.registered) /\ QueuedIds = <<>>)
  /\ [][mod.catalogReady => mod.catalogReady']_vars

\* C26: the last-known-good cache survives later loads.  Once a non-empty
\* cleaned list has been written to the cache, a later loadNASAPlanets
\* whose request fails less than 7 days after that write returns cached
\* records tagged as stale, not the built-in sentinel, whatever loads and
\* refreshes came in between.
C26_LastKnownGoodSurvives ==
  (/\ Returned /\ hist.loads >= 2
   /\ requests = 1 /\ hist.fetchError /= ""
   /\ hist.goodWrite /= Null
   /\ hist.goodWrite < hist.callTime
   /\ hist.retTime - hist.goodWrite < 7 * DAY_MS)
  => /\ ret.status = "resolved"
     /\ ret.source.kind = "cache (stale, <age> old)"
     /\ ret.planets.k = "list" /\ Len(ret.planets.v) > 0

\* C27: data and metadata stay paired.  Whenever both cache entries exist
\* and no call of setCachedData is between its two writes, the metadata
\* entry was written by the same call of setCachedData as the data entry.
C27_DataMetaPaired ==
  (/\ store.data.k = "json" /\ store.meta.k = "json"
   /\ \A i \in TabIds : tabs[i].pc /= "wrote-data")
  => hist.dataBy = hist.metaBy

\* C28: every call of initializeNASACatalog eventually marks the catalog
\* ready and runs the queued ready callbacks: sooner or later catalogReady
\* is true and the queue is empty.
C28_EventuallyReady ==
  <>(mod.catalogReady /\ mod.catalogReadyCallbacks = <<>>)

\* C29: after any successful cache write the metadata's recordCount equals
\* the number of records held in the stored data entry, including when the
\* list was truncated for size.
C29_RecordCountMatchesStored ==
  Wrote =>
    /\ store.data.k = "json" /\ store.meta.k = "json"
    /\ store.meta.v.recordCount = Len(store.data.v)

ZeroNullFields ==
  [distance |-> 0, radius |-> 0, mass |-> 0, eqTemp |-> 0, period |-> 0,
   semiMajorAxis |-> 0]

\* C30: re-validation is stable.  validateAndClean applied to the cleaned
\* output of a previous validateAndClean returns the same records in the same
\* order with the same field values, and a report with no duplicates, zero
\* dropped records and zero null-field counts.
C30_RevalidationStable ==
  revalidated.done =>
    /\ revalidated.planets = CleanOf(rawData).planets
    /\ revalidated.planets = validated.planets
    /\ revalidated.report.duplicates = {}
    /\ revalidated.report.cleaned = 0
    /\ revalidated.report.nullFields = ZeroNullFields
    /\ revalidated.report.totalInput = Len(validated.planets)
    /\ revalidated.report.totalOutput = Len(validated.planets)

\* C30 witness: the first call dropped a duplicate, reported a duplicated
\* name, counted missing masses and left a mass that is not a number, and
\* the second call has run on its output
C30_Witness ==
  /\ revalidated.done
  /\ validated.report.cleaned > 0
  /\ validated.report.duplicates /= {}
  /\ validated.report.nullFields.mass > 0
  /\ \E i \in 1..Len(validated.planets) : validated.planets[i].mass = NaN
  /\ Len(revalidated.planets) >= 2
====
